---- MODULE Spec2Model ----
(***************************************************************************)
(* Verification model of the forcerelay bridging core:                     *)
(*   - the Axon event monitor      (chain/axon/monitor.rs),                *)
(*   - the tx-hash correlation cache (chain/axon.rs),                      *)
(*   - the header alignment and proof-update builder (chain/ckb/utils.rs), *)
(*   - the inclusion proof builders (chain/axon.rs, chain/ckb4ibc/utils.rs)*)
(* Each subsystem has its own specification (MonitorSpec, StoreSpec,       *)
(* ProofSpec); the variables of the other subsystems stay at their initial *)
(* values.                                                                 *)
(***************************************************************************)
EXTENDS Integers, Sequences, FiniteSets, TLC

VARIABLES
    \* ---- remote Axon chain, as seen through the RPC capability
    chain_tip,            \* current block number of the remote chain
    chain_logs,           \* block number -> sequence of contract events (log order)
    \* ---- AxonEventMonitor (monitor.rs:27-37) and its thread
    pc,                   \* position of the monitor thread
    start_block_number,   \* monitor.rs:32
    init_start,           \* start_block_number recorded by new() (monitor.rs:60-63)
    reprocess_events,     \* monitor.rs:36
    rx_cmd,               \* monitor.rs:33, commands in flight
    tx_alive,             \* whether the sending half of the command channel exists
    subs,                 \* event_bus subscribers: bus position at subscription
    published,            \* every batch broadcast on the event bus, in order
    ibc_cache,            \* monitor.rs:35, key -> tx hash
    cache_log,            \* every cache write, in order
    pending,              \* events of the running poll not yet processed
    poll_tip,             \* tip_block_number of the running poll
    cur,                  \* event inside process_event, between cache write and broadcast
    ret,                  \* value returned by the last run_once
    contract_gen,         \* how often run() re-created the contract binding
    restores,             \* number of restore_event_tx_hashes calls so far
    restore_ret,          \* the last restore_event_tx_hashes call: argument and value returned
    \* ---- header store, remote light client (ckb/utils.rs)
    store,                \* the persisted Header Store: base slot, tip slot, MMR leaves
    onchain,              \* the light client cell on the remote chain, if any
    last,                 \* the last call on the store: its arguments and what it returned
    \* ---- inclusion proof builders (axon.rs, ckb4ibc/utils.rs)
    world,                \* what the RPC endpoints answer for the requested transaction
    axon_ret,             \* what the last AxonChain::get_proofs returned
    ckb_ret,              \* what the last generate_tx_proof_from_block returned
    \* ---- sending messages and waiting for a transaction (axon.rs, ckb/utils.rs)
    send,                 \* the running send_messages_and_wait_commit call
    ckb_chain,            \* the CKB chain: its tip and the status of the awaited transaction
    wait                  \* the running wait_ckb_transaction_committed call

mvars == <<chain_tip, chain_logs, pc, start_block_number, init_start,
           reprocess_events, rx_cmd, tx_alive, subs, published, ibc_cache,
           cache_log, pending, poll_tip, cur, ret, contract_gen, restores,
           restore_ret>>

svars == <<store, onchain, last>>

xvars == <<send, ckb_chain, wait>>

pvars == <<world, axon_ret, ckb_ret, xvars>>

vars == <<mvars, svars, pvars>>

\* ------------------------------------------------------------------ bounds
MaxBlock == 2
MaxCmds == 2
MaxReconnects == 1
MaxRestores == 1
MaxSlot == 3
MaxCacheWrites == 2
MaxMsgs == 3
MaxCkbTip == 3
MaxConfirms == 2

\* no cache key / no event in flight
NoKey == <<>>

\* --------------------------------------------------------------- the chain
\* A contract event as decoded from a log: its kind and the logical object
\* (connection / channel / packet sequence) it is about.
Ev(kind, obj) == [kind |-> kind, obj |-> obj]

\* The attributes the events carry: a connection event its connection id, a
\* channel event its channel and port id, a packet event the packet.
Conn(c) == [connection_id |-> c]
PortOf(ch) == <<"port", ch>>
Chan(ch) == [channel_id |-> ch, port_id |-> PortOf(ch)]
Packet(src, dst, seq) ==
    [source_channel |-> src, source_port |-> PortOf(src),
     destination_channel |-> dst, destination_port |-> PortOf(dst),
     sequence |-> seq]

\* What one block may contain (log order inside the block).
BlockChoices ==
    { <<>>,
      <<Ev("AcknowledgePacket", Packet(0, 1, 1)), Ev("SendPacket", Packet(0, 1, 1))>>,
      <<Ev("OpenInitConnection", Conn(0)), Ev("WriteAcknowledgement", Packet(0, 1, 1))>> }

\* One occurrence of an event on chain together with its LogMeta.
Occ(b, i) == [block |-> b, idx |-> i, ev |-> chain_logs[b][i], tx_hash |-> <<b, i>>]

RECURSIVE QueryRange(_, _)
\* contract.events().from_block(from).to_block(to).query_with_meta():
\* every event of blocks from..to, ordered by block then log index.
QueryRange(from, to) ==
    IF from > to THEN <<>>
    ELSE [i \in 1..Len(chain_logs[from]) |-> Occ(from, i)] \o QueryRange(from + 1, to)

\* ------------------------------------------------------- correlation cache
\* (mutation of CacheKey: a received packet is filed under its source end)
CacheKeyBySource(ev) ==
    IF ev.kind \in {"OpenInitConnection", "OpenTryConnection",
                    "OpenAckConnection", "OpenConfirmConnection"}
        THEN <<"Connection", ev.obj.connection_id>>
    ELSE IF ev.kind \in {"OpenInitChannel", "OpenTryChannel",
                         "OpenAckChannel", "OpenConfirmChannel"}
        THEN <<"Channel", ev.obj.channel_id, ev.obj.port_id>>
    ELSE IF ev.kind \in {"SendPacket", "ReceivePacket"}
        THEN <<"Packet", ev.obj.source_channel, ev.obj.source_port, ev.obj.sequence>>
    ELSE NoKey

\* CacheTxHashStatus chosen by cache_ics_tx_hash_with_event for an event.
CacheKey(ev) ==
    IF ev.kind \in {"OpenInitConnection", "OpenTryConnection",
                    "OpenAckConnection", "OpenConfirmConnection"}
        THEN <<"Connection", ev.obj.connection_id>>
    ELSE IF ev.kind \in {"OpenInitChannel", "OpenTryChannel",
                         "OpenAckChannel", "OpenConfirmChannel"}
        THEN <<"Channel", ev.obj.channel_id, ev.obj.port_id>>
    ELSE IF ev.kind = "SendPacket"
        THEN <<"Packet", ev.obj.source_channel, ev.obj.source_port, ev.obj.sequence>>
    ELSE IF ev.kind = "ReceivePacket"
        THEN <<"Packet", ev.obj.destination_channel, ev.obj.destination_port,
               ev.obj.sequence>>
    ELSE NoKey

\* (mutation of CacheInsert: an entry that exists is kept)
CacheInsertKeepingFirst(cache, key, hash) ==
    [k \in DOMAIN cache \cup {key} |-> IF k \in DOMAIN cache THEN cache[k] ELSE hash]

\* cache_ics_tx_hash: HashMap::insert, overwriting an earlier entry.
CacheInsert(cache, key, hash) ==
    [k \in DOMAIN cache \cup {key} |-> IF k = key THEN hash ELSE cache[k]]

\* cache_ics_tx_hash_with_event
CacheWithEvent(cache, ev, hash) ==
    IF CacheKey(ev) = NoKey THEN cache ELSE CacheInsert(cache, CacheKey(ev), hash)

\* HashMap::get on the cache, as the build_*_proofs functions do
LookupTxHash(cache, key) == IF key \in DOMAIN cache THEN <<cache[key]>> ELSE <<>>

\* IbcEventWithHeight::new_with_tx_hash
IbcEventWithHeight(o) == [event |-> o.ev, height |-> o.block, tx_hash |-> o.tx_hash]

\* EventBatch built by process_event
EventBatch(o) == [height |-> o.block, events |-> <<IbcEventWithHeight(o)>>]

\* ------------------------------------------------------------ environment
\* The remote chain appends a block.
MineBlock ==
    /\ chain_tip < MaxBlock
    /\ \E logs \in BlockChoices :
        /\ chain_tip' = chain_tip + 1
        /\ chain_logs' = [b \in 0..(chain_tip + 1) |->
                             IF b = chain_tip + 1 THEN logs ELSE chain_logs[b]]
    /\ UNCHANGED <<pc, start_block_number, init_start, reprocess_events, rx_cmd,
                   tx_alive, subs, published, ibc_cache, cache_log, pending,
                   poll_tip, cur, ret, contract_gen, restores, restore_ret>>
    /\ UNCHANGED <<svars, pvars>>

\* A holder of TxMonitorCmd sends a command (axon.rs subscribe / shutdown);
\* the send fails once run() has returned and dropped the receiver.
SendCmd ==
    /\ tx_alive
    /\ pc \notin {"new", "stopped"}
    /\ Len(rx_cmd) + Len(subs) < MaxCmds
    /\ \E c \in {"Subscribe", "Shutdown"} : rx_cmd' = Append(rx_cmd, c)
    /\ UNCHANGED <<chain_tip, chain_logs, pc, start_block_number, init_start,
                   reprocess_events, tx_alive, subs, published, ibc_cache,
                   cache_log, pending, poll_tip, cur, ret, contract_gen,
                   restores, restore_ret>>
    /\ UNCHANGED <<svars, pvars>>

\* A holder of TxMonitorCmd sends a command while one more is in flight.
SendCmdBurst ==
    /\ tx_alive
    /\ pc \notin {"new", "stopped"}
    /\ Len(rx_cmd) + Len(subs) < MaxCmds + 1
    /\ \E c \in {"Subscribe", "Shutdown"} : rx_cmd' = Append(rx_cmd, c)
    /\ UNCHANGED <<chain_tip, chain_logs, pc, start_block_number, init_start,
                   reprocess_events, tx_alive, subs, published, ibc_cache,
                   cache_log, pending, poll_tip, cur, ret, contract_gen,
                   restores, restore_ret>>
    /\ UNCHANGED <<svars, pvars>>

\* Every TxMonitorCmd handle is dropped: the channel becomes disconnected.
DropSender ==
    /\ tx_alive
    /\ pc # "new"
    /\ tx_alive' = FALSE
    /\ UNCHANGED <<chain_tip, chain_logs, pc, start_block_number, init_start,
                   reprocess_events, rx_cmd, subs, published, ibc_cache,
                   cache_log, pending, poll_tip, cur, ret, contract_gen,
                   restores, restore_ret>>
    /\ UNCHANGED <<svars, pvars>>

\* ------------------------------------------------------------ the monitor
\* AxonEventMonitor::new
New ==
    /\ pc = "new"
    /\ pc' = "created"
    /\ start_block_number' = chain_tip
    /\ init_start' = chain_tip
    /\ UNCHANGED <<chain_tip, chain_logs, reprocess_events, rx_cmd, tx_alive,
                   subs, published, ibc_cache, cache_log, pending, poll_tip,
                   cur, ret, contract_gen, restores, restore_ret>>
    /\ UNCHANGED <<svars, pvars>>

\* (mutation of EventFilter: only sent packets are flagged)
EventFilterSendOnly(ev) == ev.kind = "SendPacket"

\* event_filter of restore_event_tx_hashes
EventFilter(ev) == ev.kind \in {"SendPacket", "WriteAcknowledgement"}

RECURSIVE SelectOcc(_)
\* the events of a query result that restore flags for reprocessing
SelectOcc(s) ==
    IF s = <<>> THEN <<>>
    ELSE IF EventFilter(Head(s).ev) THEN <<Head(s)>> \o SelectOcc(Tail(s))
    ELSE SelectOcc(Tail(s))

\* AxonEventMonitor::restore_event_tx_hashes(latest_block_count)
RestoreEventTxHashes ==
    /\ pc = "created"
    /\ restores < MaxRestores
    /\ restores' = restores + 1
    \* every count beyond start_block_number fails alike: one of them is drawn
    /\ \E latest_block_count \in 0..(start_block_number + 1), query_ok \in BOOLEAN :
        IF latest_block_count > start_block_number
        THEN /\ restore_ret' = [ok |-> FALSE, events |-> <<>>,
                                 latest_block_count |-> latest_block_count]
             /\ UNCHANGED reprocess_events
        ELSE IF ~query_ok
        THEN /\ restore_ret' = [ok |-> FALSE, events |-> <<>>,
                                 latest_block_count |-> latest_block_count]
             /\ UNCHANGED reprocess_events
        ELSE LET events == QueryRange(start_block_number - latest_block_count,
                                      start_block_number)
             IN /\ reprocess_events' = reprocess_events \o SelectOcc(events)
                /\ restore_ret' =
                       [ok |-> TRUE,
                        events |-> [i \in 1..Len(events) |-> IbcEventWithHeight(events[i])],
                        latest_block_count |-> latest_block_count]
    /\ UNCHANGED <<chain_tip, chain_logs, pc, start_block_number, init_start,
                   rx_cmd, tx_alive, subs, published, ibc_cache, cache_log,
                   pending, poll_tip, cur, ret, contract_gen>>
    /\ UNCHANGED <<svars, pvars>>

\* (mutation of RunStart: run() enters its loop without going through the
\* reprocess queue)
RunStartSkippingReprocess ==
    /\ pc = "created"
    /\ \/ /\ rx_cmd # <<>>
          /\ rx_cmd' = Tail(rx_cmd)
          /\ IF Head(rx_cmd) = "Shutdown"
             THEN /\ pc' = "stopped"
                  /\ UNCHANGED subs
             ELSE /\ subs' = Append(subs, Len(published))
                  /\ pc' = "loop"
       \/ /\ rx_cmd = <<>>
          /\ ~tx_alive
          /\ pc' = "stopped"
          /\ UNCHANGED <<rx_cmd, subs>>
    /\ restores' = 0
    /\ restore_ret' = [ok |-> FALSE, events |-> <<>>, latest_block_count |-> 0]
    /\ UNCHANGED <<chain_tip, chain_logs, start_block_number, init_start,
                   reprocess_events, tx_alive, published, ibc_cache, cache_log,
                   pending, poll_tip, cur, ret, contract_gen>>
    /\ UNCHANGED <<svars, pvars>>

\* run(): update_subscribe(false), the blocking receive of the first command.
RunStart ==
    /\ pc = "created"
    /\ \/ /\ rx_cmd # <<>>
          /\ rx_cmd' = Tail(rx_cmd)
          /\ IF Head(rx_cmd) = "Shutdown"
             THEN /\ pc' = "stopped"
                  /\ UNCHANGED subs
             ELSE /\ subs' = Append(subs, Len(published))
                  /\ pc' = IF reprocess_events = <<>> THEN "loop" ELSE "reprocess"
       \/ /\ rx_cmd = <<>>
          /\ ~tx_alive
          /\ pc' = "stopped"
          /\ UNCHANGED <<rx_cmd, subs>>
    \* run(mut self) consumes the monitor: no restore call can follow, and the
    \* value the last one returned has been taken by its caller
    /\ restores' = 0
    /\ restore_ret' = [ok |-> FALSE, events |-> <<>>, latest_block_count |-> 0]
    /\ UNCHANGED <<chain_tip, chain_logs, start_block_number, init_start,
                   reprocess_events, tx_alive, published, ibc_cache, cache_log,
                   pending, poll_tip, cur, ret, contract_gen>>
    /\ UNCHANGED <<svars, pvars>>

\* (mutation of ProcessEventCache: the cache is not written before the broadcast)
ProcessEventCacheSkipped(o) ==
    /\ start_block_number' = o.block
    /\ UNCHANGED <<ibc_cache, cache_log>>
    /\ cur' = <<o>>

\* process_event, first half: record the position and write the cache.
ProcessEventCache(o) ==
    /\ start_block_number' = o.block
    /\ ibc_cache' = CacheWithEvent(ibc_cache, o.ev, o.tx_hash)
    /\ cache_log' = IF CacheKey(o.ev) = NoKey THEN cache_log
                    ELSE Append(cache_log, [key |-> CacheKey(o.ev), occ |-> o])
    /\ cur' = <<o>>

\* run(): the for_each over reprocess_events, one process_event at a time.
ReprocessEvent ==
    /\ pc = "reprocess"
    /\ cur = <<>>
    /\ reprocess_events # <<>>
    /\ reprocess_events' = Tail(reprocess_events)
    /\ ProcessEventCache(Head(reprocess_events))
    /\ UNCHANGED <<chain_tip, chain_logs, pc, init_start, rx_cmd, tx_alive, subs,
                   published, pending, poll_tip, ret, contract_gen, restores,
                   restore_ret>>
    /\ UNCHANGED <<svars, pvars>>

\* process_event, second half: process_batch broadcasts the batch of one event.
\* After the last reprocessed event run() creates the contract and enters its loop.
ProcessBatch ==
    /\ cur # <<>>
    /\ published' = Append(published, EventBatch(cur[1]))
    /\ cur' = <<>>
    /\ pc' = IF pc = "reprocess" /\ reprocess_events = <<>> THEN "loop" ELSE pc
    /\ UNCHANGED <<chain_tip, chain_logs, start_block_number, init_start,
                   reprocess_events, rx_cmd, tx_alive, subs, ibc_cache, cache_log,
                   pending, poll_tip, ret, contract_gen, restores, restore_ret>>
    /\ UNCHANGED <<svars, pvars>>

\* (mutation of PollFailed: a failed poll that moves the position past the tip)
PollFailedSkipping ==
    /\ ret' = "fail"
    /\ pc' = "match"
    /\ start_block_number' = chain_tip + 1
    /\ UNCHANGED <<pending, poll_tip>>

\* run_once returned (Next::Continue, false): the tip or the events could not be fetched.
PollFailed ==
    /\ ret' = "fail"
    /\ pc' = "match"
    /\ UNCHANGED <<start_block_number, pending, poll_tip>>

\* (mutation of PollChain: the query starts at the first block of the chain)
PollChainRescanning ==
    \E tip_ok, events_ok \in BOOLEAN :
        IF ~tip_ok
        THEN contract_gen < MaxReconnects /\ PollFailed
        ELSE IF start_block_number >= chain_tip
        THEN /\ ret' = "idle"
             /\ pc' = "match"
             /\ UNCHANGED <<start_block_number, pending, poll_tip>>
        ELSE IF ~events_ok
        THEN contract_gen < MaxReconnects /\ PollFailed
        ELSE /\ pending' = QueryRange(0, chain_tip)
             /\ poll_tip' = chain_tip
             /\ pc' = "polling"
             /\ UNCHANGED <<start_block_number, ret>>

\* run_once after update_subscribe(true) returned Next::Continue
PollChain ==
    \E tip_ok, events_ok \in BOOLEAN :
        IF ~tip_ok
        THEN contract_gen < MaxReconnects /\ PollFailed
        ELSE IF start_block_number >= chain_tip
        THEN /\ ret' = "idle"
             /\ pc' = "match"
             /\ UNCHANGED <<start_block_number, pending, poll_tip>>
        ELSE IF ~events_ok
        THEN contract_gen < MaxReconnects /\ PollFailed
        ELSE /\ pending' = QueryRange(start_block_number, chain_tip)
             /\ poll_tip' = chain_tip
             /\ pc' = "polling"
             /\ UNCHANGED <<start_block_number, ret>>

\* (mutation of RunOnce: the subscription is created after the events of the
\* cycle have been fetched and handed on)
RunOnceSubscribeLast ==
    /\ pc = "loop"
    /\ \/ /\ rx_cmd # <<>>
          /\ Head(rx_cmd) = "Shutdown"
          /\ rx_cmd' = Tail(rx_cmd)
          /\ ret' = "abort"
          /\ pc' = "match"
          /\ UNCHANGED <<subs, start_block_number, pending, poll_tip>>
       \/ /\ rx_cmd # <<>>
          /\ Head(rx_cmd) = "Subscribe"
          /\ rx_cmd' = Tail(rx_cmd)
          /\ PollChain
          /\ subs' = Append(subs, Len(published) + Len(pending'))
       \/ /\ rx_cmd = <<>>
          /\ ~tx_alive
          /\ ret' = "abort"
          /\ pc' = "match"
          /\ UNCHANGED <<rx_cmd, subs, start_block_number, pending, poll_tip>>
       \/ /\ rx_cmd = <<>>
          /\ tx_alive
          /\ PollChain
          /\ UNCHANGED <<rx_cmd, subs>>
    /\ UNCHANGED <<chain_tip, chain_logs, init_start, reprocess_events, tx_alive,
                   published, ibc_cache, cache_log, cur, contract_gen, restores,
                   restore_ret>>
    /\ UNCHANGED <<svars, pvars>>

\* (mutation of RunOnce: a disconnected command channel is treated like an
\* empty one)
RunOnceIgnoringDisconnect ==
    /\ pc = "loop"
    /\ \/ /\ rx_cmd # <<>>
          /\ Head(rx_cmd) = "Shutdown"
          /\ rx_cmd' = Tail(rx_cmd)
          /\ ret' = "abort"
          /\ pc' = "match"
          /\ UNCHANGED <<subs, start_block_number, pending, poll_tip>>
       \/ /\ rx_cmd # <<>>
          /\ Head(rx_cmd) = "Subscribe"
          /\ rx_cmd' = Tail(rx_cmd)
          /\ subs' = Append(subs, Len(published))
          /\ PollChain
       \/ /\ rx_cmd = <<>>
          /\ PollChain
          /\ UNCHANGED <<rx_cmd, subs>>
    /\ UNCHANGED <<chain_tip, chain_logs, init_start, reprocess_events, tx_alive,
                   published, ibc_cache, cache_log, cur, contract_gen, restores,
                   restore_ret>>
    /\ UNCHANGED <<svars, pvars>>

\* run_once, up to the point where the events of the range have been fetched
RunOnce ==
    /\ pc = "loop"
    /\ \/ /\ rx_cmd # <<>>
          /\ Head(rx_cmd) = "Shutdown"
          /\ rx_cmd' = Tail(rx_cmd)
          /\ ret' = "abort"
          /\ pc' = "match"
          /\ UNCHANGED <<subs, start_block_number, pending, poll_tip>>
       \/ /\ rx_cmd # <<>>
          /\ Head(rx_cmd) = "Subscribe"
          /\ rx_cmd' = Tail(rx_cmd)
          /\ subs' = Append(subs, Len(published))
          /\ PollChain
       \/ /\ rx_cmd = <<>>
          /\ ~tx_alive
          /\ ret' = "abort"
          /\ pc' = "match"
          /\ UNCHANGED <<rx_cmd, subs, start_block_number, pending, poll_tip>>
       \/ /\ rx_cmd = <<>>
          /\ tx_alive
          /\ PollChain
          /\ UNCHANGED <<rx_cmd, subs>>
    /\ UNCHANGED <<chain_tip, chain_logs, init_start, reprocess_events, tx_alive,
                   published, ibc_cache, cache_log, cur, contract_gen, restores,
                   restore_ret>>
    /\ UNCHANGED <<svars, pvars>>

\* (mutation of ProcessEvent: the fetched events are handled last first)
ProcessEventLastFirst ==
    /\ pc = "polling"
    /\ cur = <<>>
    /\ pending # <<>>
    /\ pending' = SubSeq(pending, 1, Len(pending) - 1)
    /\ ProcessEventCache(pending[Len(pending)])
    /\ UNCHANGED <<chain_tip, chain_logs, pc, init_start, reprocess_events, rx_cmd,
                   tx_alive, subs, published, poll_tip, ret, contract_gen,
                   restores, restore_ret>>
    /\ UNCHANGED <<svars, pvars>>

\* run_once: the for_each over the fetched events, one process_event at a time.
ProcessEvent ==
    /\ pc = "polling"
    /\ cur = <<>>
    /\ pending # <<>>
    /\ pending' = Tail(pending)
    /\ ProcessEventCache(Head(pending))
    /\ UNCHANGED <<chain_tip, chain_logs, pc, init_start, reprocess_events, rx_cmd,
                   tx_alive, subs, published, poll_tip, ret, contract_gen,
                   restores, restore_ret>>
    /\ UNCHANGED <<svars, pvars>>

\* (mutation of NextStart: the position skips the block after the tip)
NextStartSkipping(tip) == tip + 2

\* the position run_once records once every fetched event has been processed
NextStart(tip) == tip + 1

\* run_once: every fetched event processed, the position moves past the tip.
FinishPoll ==
    /\ pc = "polling"
    /\ cur = <<>>
    /\ pending = <<>>
    /\ start_block_number' = NextStart(poll_tip)
    /\ ret' = "ok"
    /\ pc' = "match"
    /\ poll_tip' = 0
    /\ UNCHANGED <<chain_tip, chain_logs, init_start, reprocess_events, rx_cmd,
                   tx_alive, subs, published, ibc_cache, cache_log, pending,
                   cur, contract_gen, restores, restore_ret>>
    /\ UNCHANGED <<svars, pvars>>

\* (mutation of MatchResult: Next::Abort does not end the loop)
MatchResultIgnoringAbort ==
    /\ pc = "match"
    /\ pc' = "loop"
    /\ contract_gen' = IF ret = "fail" THEN contract_gen + 1 ELSE contract_gen
    /\ ret' = "none"
    /\ UNCHANGED <<chain_tip, chain_logs, start_block_number, init_start,
                   reprocess_events, rx_cmd, tx_alive, subs, published, ibc_cache,
                   cache_log, pending, poll_tip, cur, restores, restore_ret>>
    /\ UNCHANGED <<svars, pvars>>

\* run(): the match on the value run_once returned.
MatchResult ==
    /\ pc = "match"
    /\ pc' = IF ret = "abort" THEN "stopped" ELSE "loop"
    /\ contract_gen' = IF ret = "fail" THEN contract_gen + 1 ELSE contract_gen
    /\ ret' = "none"
    /\ UNCHANGED <<chain_tip, chain_logs, start_block_number, init_start,
                   reprocess_events, rx_cmd, tx_alive, subs, published, ibc_cache,
                   cache_log, pending, poll_tip, cur, restores, restore_ret>>
    /\ UNCHANGED <<svars, pvars>>


\* ---- process_event on any event the contract can emit
\* the event kinds of OwnableIBCHandlerEvents
ConnectionKinds == {"OpenInitConnection", "OpenTryConnection",
                    "OpenAckConnection", "OpenConfirmConnection"}
ChannelKinds == {"OpenInitChannel", "OpenTryChannel",
                 "OpenAckChannel", "OpenConfirmChannel"}
PacketKinds == {"SendPacket", "ReceivePacket", "WriteAcknowledgement",
                "AcknowledgePacket", "TimeoutPacket"}

\* the events an occurrence may carry
ObservableEvents ==
    {Ev(k, Conn(0)) : k \in ConnectionKinds}
    \cup {Ev(k, Chan(0)) : k \in ChannelKinds}
    \cup {Ev(k, Packet(p[1], p[2], 1)) : k \in PacketKinds, p \in {<<0, 1>>, <<1, 0>>}}
    \cup {Ev("CreateClient", [client_id |-> 0])}

\* the occurrences: one event per transaction, in block 1 or 2
ObservableOccs ==
    {[block |-> b, idx |-> 1, ev |-> ev, tx_hash |-> <<b, 1>>] :
        b \in {1, 2}, ev \in ObservableEvents}

\* process_event up to the cache write, for an event of any kind
ObserveEvent ==
    /\ Len(cache_log) < MaxCacheWrites
    /\ \E o \in ObservableOccs : ProcessEventCache(o)
    /\ UNCHANGED <<chain_tip, chain_logs, pc, init_start, reprocess_events, rx_cmd,
                   tx_alive, subs, published, pending, poll_tip, ret,
                   contract_gen, restores, restore_ret>>
    /\ UNCHANGED <<svars, pvars>>


\* ==========================================================================
\* Header store, alignment reconciler and proof-update builder (ckb/utils.rs)
\* ==========================================================================

\* Option<T>
NoneOpt == <<>>
Some(x) == <<x>>
IsSome(o) == o # <<>>
Unwrap(o) == o[1]

Slots == 1..MaxSlot

\* A finalized header: its slot and the rest of its contents (there is one
\* finalized header per slot).
Header(s) == [slot |-> s, body |-> <<"finalized", s>>]

\* HeaderWithCache::digest, the MMR leaf of a header (a hash: injective)
Digest(h) == <<h.slot, h.body>>

\* into_cached_headers / the digests pushed for a run of headers
Digests(hs) == [i \in 1..Len(hs) |-> Digest(hs[i])]

RECURSIVE SortedSeq(_)
\* the slots of a set in increasing order
SortedSeq(S) ==
    IF S = {} THEN <<>>
    ELSE LET m == CHOOSE x \in S : \A y \in S : x <= y
         IN <<m>> \o SortedSeq(S \ {m})

\* The header batches a caller may pass: any strictly increasing run of slots
\* (contiguous or with gaps), and the empty batch.
Batches ==
    { [i \in 1..Len(SortedSeq(S)) |-> Header(SortedSeq(S)[i])] : S \in SUBSET Slots }

\* ---- the header store (ibc_relayer_storage), modelled from spec section 4.1
EmptyStore == [base |-> NoneOpt, tip |-> NoneOpt, leaves |-> <<>>]

\* StorageReader::is_initialized
IsInitialized(st) == IsSome(st.base)

\* StorageWriter::initialize_with(slot, digest)
InitializeWith(st, slot, digest) ==
    [base |-> Some(slot), tip |-> st.tip, leaves |-> <<digest>>]

\* StorageWriter::put_tip_beacon_header_slot
PutTip(st, slot) == [st EXCEPT !.tip = Some(slot)]

\* number of leaves of the MMR whose last leaf is the header of `slot`
\* (leaf index of slot s is s - base_slot)
LeafCount(st, slot) ==
    IF slot < Unwrap(st.base) THEN 0 ELSE slot - Unwrap(st.base) + 1

\* whether the stored nodes cover the MMR of `slot`
HasMmr(st, slot) == IsInitialized(st) /\ LeafCount(st, slot) <= Len(st.leaves)

\* StorageAsMMRStore::chain_root_mmr(slot): the MMR over the leaves up to `slot`
ChainRootMmr(st, slot) == SubSeq(st.leaves, 1, LeafCount(st, slot))

\* MMR::commit: the pushed leaves become the stored ones
MmrCommit(st, mmr) == [st EXCEPT !.leaves = mmr]

\* MMR::get_root: a commitment to the whole leaf sequence
MmrRoot(mmr) == [commits_to |-> mmr]

\* MMR::gen_proof(positions): what is needed, besides the leaves at the given
\* indices, to recompute the root (here: the other leaves, by index)
MmrGenProof(mmr, idxs) == [i \in (0..(Len(mmr) - 1)) \ idxs |-> mmr[i + 1]]

\* MMR proof verification: recompute the root of an MMR of `size` leaves from
\* the proof and the leaves (index -> digest), and compare
MmrVerify(root, size, proof, leaves) ==
    /\ (DOMAIN proof) \cap (DOMAIN leaves) = {}
    /\ (DOMAIN proof) \cup (DOMAIN leaves) = 0..(size - 1)
    /\ root = MmrRoot([i \in 1..size |->
                          IF (i - 1) \in DOMAIN leaves THEN leaves[i - 1] ELSE proof[i - 1]])

\* StorageWriter::rollback_to(Some(slot)): the tip becomes `slot`, the leaves
\* beyond it are discarded, base_slot stays.  rollback_to(None): emptied.
RollbackTo(st, slot_opt) ==
    IF ~IsSome(slot_opt) THEN EmptyStore
    ELSE IF ~IsInitialized(st) THEN st
    ELSE [st EXCEPT !.tip = slot_opt,
                    !.leaves = IF HasMmr(st, Unwrap(slot_opt))
                               THEN ChainRootMmr(st, Unwrap(slot_opt))
                               ELSE st.leaves]

\* ---- the light client of eth_light_client_in_ckb_verification
\* whether the slots of the updates are continuous
UpdatesContinuous(hs) == \A i \in 1..Len(hs) : hs[i].slot = hs[1].slot + (i - 1)

\* the leaves (index -> digest) the client derives from the updates, the first
\* update having leaf index `first_index`
UpdateLeaves(hs, first_index) ==
    [i \in first_index..(first_index + Len(hs) - 1) |-> Digest(hs[i - first_index + 1])]

\* core::Client::new_from_packed_proof_update
NewFromPackedProofUpdate(pu) ==
    IF /\ pu.updates # <<>>
       /\ UpdatesContinuous(pu.updates)
       /\ MmrVerify(pu.new_headers_mmr_root, Len(pu.updates),
                    pu.new_headers_mmr_proof, UpdateLeaves(pu.updates, 0))
    THEN Some([minimal_slot |-> pu.updates[1].slot,
               maximal_slot |-> pu.updates[Len(pu.updates)].slot,
               headers_mmr_root |-> pu.new_headers_mmr_root])
    ELSE NoneOpt

\* core::Client::try_apply_packed_proof_update
TryApplyPackedProofUpdate(client, pu) ==
    IF /\ pu.updates # <<>>
       /\ pu.updates[1].slot = client.maximal_slot + 1
       /\ UpdatesContinuous(pu.updates)
       /\ MmrVerify(pu.new_headers_mmr_root,
                    pu.updates[Len(pu.updates)].slot - client.minimal_slot + 1,
                    pu.new_headers_mmr_proof,
                    UpdateLeaves(pu.updates, pu.updates[1].slot - client.minimal_slot))
    THEN Some([minimal_slot |-> client.minimal_slot,
               maximal_slot |-> pu.updates[Len(pu.updates)].slot,
               headers_mmr_root |-> pu.new_headers_mmr_root])
    ELSE NoneOpt

\* ---- errors (crate::error::Error), by constructor, detail and slot
Err(kind, detail, slot) == [kind |-> kind, detail |-> detail, slot |-> slot]
NoErr == Err("none", "", 0)
EmptyUpgradedClientState == Err("empty_upgraded_client_state", "", 0)
MissingLastBlockId(slot) == Err("light_client_verification", "missing_last_block_id", slot)
\* (mutation of TargetLowerThanTrustedState: the gap error is returned)
TargetLowerAsGap(slot) == MissingLastBlockId(slot)
TargetLowerThanTrustedState(slot) ==
    Err("light_client_verification", "target_lower_than_trusted_state", slot)
StorageErr == Err("storage", "", 0)
SendTx(msg) == Err("send_tx", msg, 0)

\* (mutation of CommitHeaders: the tip slot is not updated after the commit)
CommitHeadersTipKept(st, hs) ==
    IF hs = <<>> \/ ~IsInitialized(st) \/ ~HasMmr(st, hs[1].slot - 1)
    THEN [ok |-> hs = <<>>, store |-> st]
    ELSE [ok |-> TRUE,
          store |-> MmrCommit(st, ChainRootMmr(st, hs[1].slot - 1) \o Digests(hs))]

\* (mutation of CommitHeaders: the storage is initialized anew by every commit)
CommitHeadersRebasing(st, hs) ==
    IF hs = <<>> THEN [ok |-> TRUE, store |-> st]
    ELSE [ok |-> TRUE,
          store |-> PutTip(MmrCommit(InitializeWith(st, hs[1].slot, Digest(hs[1])),
                                     Digests(hs)),
                           hs[Len(hs)].slot)]

\* (mutation of CommitHeaders: the tip slot is not written after mmr.commit)
CommitHeadersTipNotMoved(st, hs) ==
    IF hs = <<>> THEN [ok |-> TRUE, store |-> st]
    ELSE LET init == IsInitialized(st)
             st1 == IF init THEN st
                    ELSE PutTip(InitializeWith(st, hs[1].slot, Digest(hs[1])), hs[1].slot)
             last_slot == IF init THEN hs[1].slot - 1 ELSE hs[1].slot
             rest == IF init THEN hs ELSE Tail(hs)
         IN IF ~HasMmr(st1, last_slot)
            THEN [ok |-> FALSE, store |-> st]
            ELSE [ok |-> TRUE,
                  store |-> MmrCommit(st1, ChainRootMmr(st1, last_slot) \o Digests(rest))]

\* ---- commit_headers_into_mmr_storage when no storage call fails: [ok, store]
CommitHeaders(st, hs) ==
    IF hs = <<>> THEN [ok |-> TRUE, store |-> st]
    ELSE LET init == IsInitialized(st)
             st1 == IF init THEN st
                    ELSE PutTip(InitializeWith(st, hs[1].slot, Digest(hs[1])), hs[1].slot)
             last_slot == IF init THEN hs[1].slot - 1 ELSE hs[1].slot
             rest == IF init THEN hs ELSE Tail(hs)
         IN IF ~HasMmr(st1, last_slot)
            THEN \* the store persists on commit only: nothing of the call is kept
                 [ok |-> FALSE, store |-> st]
            ELSE [ok |-> TRUE,
                  store |-> PutTip(MmrCommit(st1, ChainRootMmr(st1, last_slot) \o Digests(rest)),
                                   hs[Len(hs)].slot)]

\* what a call on the store returned, and the store it left behind
Ret(outcome, err, prev_tip, client, proof_update, rolled_to, st) ==
    [outcome |-> outcome, err |-> err, prev_tip |-> prev_tip, client |-> client,
     proof_update |-> proof_update, rolled_to |-> rolled_to, store |-> st]
RetErr(err, rolled_to, st) == Ret("err", err, NoneOpt, NoneOpt, NoneOpt, rolled_to, st)
RetPanic(rolled_to, st) == Ret("panic", NoErr, NoneOpt, NoneOpt, NoneOpt, rolled_to, st)
RetOk(st) == Ret("ok", NoErr, NoneOpt, NoneOpt, NoneOpt, NoneOpt, st)

\* (mutation of RejectEmpty: an empty batch is nothing to do)
AcceptEmpty(st) == RetOk(st)

\* align, build: an empty header_updates is an error
RejectEmpty(st) == RetErr(EmptyUpgradedClientState, NoneOpt, st)

\* (mutation of FollowsTip: any slot beyond the stored tip)
FollowsTipLoose(upcoming_start_slot, stored_tip_slot) ==
    upcoming_start_slot > stored_tip_slot

\* align: the upcoming headers start right after the stored tip
FollowsTip(upcoming_start_slot, stored_tip_slot) ==
    upcoming_start_slot = stored_tip_slot + 1

\* (mutation of StartsAtOnchainMinimal: any slot of the onchain window)
StartsInOnchainWindow(upcoming_start_slot, client) ==
    /\ upcoming_start_slot >= client.minimal_slot
    /\ upcoming_start_slot <= client.maximal_slot

\* align, empty storage: the upcoming headers start at the onchain minimal slot
StartsAtOnchainMinimal(upcoming_start_slot, client) ==
    upcoming_start_slot = client.minimal_slot

\* (mutation of AlignTip: a tip at the onchain maximal slot is still behind)
AlignTipStrict(st, onchain_maximal_slot) ==
    IF Unwrap(st.tip) <= onchain_maximal_slot
    THEN RetErr(MissingLastBlockId(Unwrap(st.tip) + 1), NoneOpt, st)
    ELSE RetOk(st)

\* (mutation of AlignTip: the error names the stored tip itself)
AlignTipOffByOne(st, onchain_maximal_slot) ==
    IF Unwrap(st.tip) < onchain_maximal_slot
    THEN RetErr(MissingLastBlockId(Unwrap(st.tip)), NoneOpt, st)
    ELSE RetOk(st)

\* align: the check of the stored tip against the onchain maximal slot
\* after the headers were (or need not be) committed
AlignTip(st, onchain_maximal_slot) ==
    IF Unwrap(st.tip) < onchain_maximal_slot
    THEN RetErr(MissingLastBlockId(Unwrap(st.tip) + 1), NoneOpt, st)
    ELSE RetOk(st)

\* A storage call that returns Err (an I/O error) ends the running call with
\* that error, `?`; the store is as the calls before it left it.
StorageFailure(rolled_to, st) == RetErr(StorageErr, rolled_to, st)

\* (mutation of AlignCommit: the tip check without the commit before it)
AlignCommitSkipped(st, hs, onchain_maximal_slot) ==
    {StorageFailure(NoneOpt, st), AlignTip(st, onchain_maximal_slot)}

\* (mutation of AlignCommit: success is returned once the headers are committed)
AlignCommitUnchecked(st, hs, onchain_maximal_slot) ==
    LET c == CommitHeaders(st, hs)
    IN {StorageFailure(NoneOpt, st)}
       \cup (IF ~c.ok THEN {} ELSE {RetOk(c.store)})

\* align: commit_headers_into_mmr_storage(..)? followed by the tip check; the
\* set of the possible results
AlignCommit(st, hs, onchain_maximal_slot) ==
    LET c == CommitHeaders(st, hs)
    IN {StorageFailure(NoneOpt, st)}
       \cup (IF ~c.ok THEN {} ELSE {AlignTip(c.store, onchain_maximal_slot)})

\* (mutation of AlignNativeAndOnchainUpdates: the stored tip is checked
\* before the stored base)
AlignGapFirst(st, hs, client) ==
    IF hs = <<>> THEN {RejectEmpty(st)}
    ELSE IF IsSome(st.tip) /\ Unwrap(st.tip) < client.maximal_slot
                           /\ ~FollowsTip(hs[1].slot, Unwrap(st.tip))
    THEN {RetErr(MissingLastBlockId(Unwrap(st.tip) + 1), NoneOpt, st)}
    ELSE IF IsSome(st.base) /\ Unwrap(st.base) > client.minimal_slot
    THEN {RetErr(TargetLowerThanTrustedState(client.minimal_slot), NoneOpt, st)}
    ELSE IF IsSome(st.tip)
    THEN IF Unwrap(st.tip) < client.maximal_slot
         THEN AlignCommit(st, hs, client.maximal_slot)
         ELSE {AlignTip(st, client.maximal_slot)}
    ELSE IF StartsAtOnchainMinimal(hs[1].slot, client)
         THEN AlignCommit(st, hs, client.maximal_slot)
         ELSE {RetErr(MissingLastBlockId(client.minimal_slot), NoneOpt, st)}

\* align_native_and_onchain_updates: the set of the possible results
AlignNativeAndOnchainUpdates(st, hs, client) ==
    IF hs = <<>> THEN {RejectEmpty(st)}
    ELSE IF IsSome(st.base) /\ Unwrap(st.base) > client.minimal_slot
    THEN {RetErr(TargetLowerThanTrustedState(client.minimal_slot), NoneOpt, st)}
    ELSE IF IsSome(st.tip)
    THEN IF Unwrap(st.tip) < client.maximal_slot
         THEN IF FollowsTip(hs[1].slot, Unwrap(st.tip))
              THEN AlignCommit(st, hs, client.maximal_slot)
              ELSE {RetErr(MissingLastBlockId(Unwrap(st.tip) + 1), NoneOpt, st)}
         ELSE {AlignTip(st, client.maximal_slot)}
    ELSE IF StartsAtOnchainMinimal(hs[1].slot, client)
         THEN AlignCommit(st, hs, client.maximal_slot)
         ELSE {RetErr(MissingLastBlockId(client.minimal_slot), NoneOpt, st)}

\* (mutation of SlotsContinuous: only the order of the slots is checked)
SlotsIncreasing(hs) == \A i \in 1..(Len(hs) - 1) : hs[i].slot < hs[i + 1].slot

\* (mutation of OnchainTipContinuous: any slot beyond the onchain tip)
OnchainTipBehind(start_slot, client) == start_slot > client.maximal_slot

\* build: "make sure the upcoming start slot is continuous with the onchain
\* tip slot"
OnchainTipContinuous(start_slot, client) == start_slot = client.maximal_slot + 1

\* build: "make sure the upcoming headers' slot are continuous"
SlotsContinuous(hs) == \A i \in 1..Len(hs) : hs[i].slot = (i - 1) + hs[1].slot

\* (mutation of PrevTipSlot: the slot after the onchain tip)
PrevTipSlotNext(client_opt) ==
    IF IsSome(client_opt) THEN Some(Unwrap(client_opt).maximal_slot + 1) ELSE NoneOpt

\* build: prev_tip_slot, the onchain tip slot when a client was passed
PrevTipSlot(client_opt) ==
    IF IsSome(client_opt) THEN Some(Unwrap(client_opt).maximal_slot) ELSE NoneOpt

\* (mutation of RollbackTarget: the slot the debug message names)
RollbackTargetStart(start_slot) == start_slot

\* build: the slot the storage is rolled back to
RollbackTarget(start_slot) == start_slot - 1

\* build: the root of the MMR up to `maximal_slot`, the proof of the new
\* headers in it, and the headers, packed as a ProofUpdate
PackedProofUpdate(st, hs, minimal_slot) ==
    LET mmr == ChainRootMmr(st, hs[Len(hs)].slot)
    IN [new_headers_mmr_root |-> MmrRoot(mmr),
        new_headers_mmr_proof |->
            MmrGenProof(mmr, { hs[i].slot - minimal_slot : i \in 1..Len(hs) }),
        updates |-> hs]

\* (mutation of SelfVerify: the client is updated without the verification)
SelfVerifySkipped(client_opt, pu) ==
    Some([minimal_slot |-> IF IsSome(client_opt) THEN Unwrap(client_opt).minimal_slot
                           ELSE pu.updates[1].slot,
          maximal_slot |-> pu.updates[Len(pu.updates)].slot,
          headers_mmr_root |-> pu.new_headers_mmr_root])

\* build: "invoke verification from core::Client on packed_proof_update"
SelfVerify(client_opt, pu) ==
    IF IsSome(client_opt) THEN TryApplyPackedProofUpdate(Unwrap(client_opt), pu)
    ELSE NewFromPackedProofUpdate(pu)

\* build, from the proof generation on: the set of the possible results
BuildProve(st, hs, client_opt, rolled_to, minimal_slot) ==
    {StorageFailure(rolled_to, st)}
    \cup (IF ~HasMmr(st, hs[Len(hs)].slot) THEN {}
          ELSE LET pu == PackedProofUpdate(st, hs, minimal_slot)
                   client == SelfVerify(client_opt, pu)
               IN IF ~IsSome(client)
                  THEN {RetErr(SendTx(IF IsSome(client_opt) THEN "failed to update header"
                                      ELSE "failed to create header"),
                               rolled_to, st)}
                  ELSE {Ret("ok", NoErr, PrevTipSlot(client_opt), client, Some(pu),
                            rolled_to, st)})

\* build, from the commit on: the set of the possible results
BuildCommit(st, hs, client_opt, rolled_to) ==
    LET start_slot == hs[1].slot
        minimal_slot == IF IsSome(st.base) THEN Unwrap(st.base) ELSE start_slot
        c == CommitHeaders(st, hs)
    IN {StorageFailure(rolled_to, st)}
       \cup (IF ~c.ok THEN {}
             ELSE IF start_slot < minimal_slot
             THEN \* `slot - minimal_slot` overflows: a panic where the program is
                  \* built with overflow checks, a position out of range where not
                  {RetPanic(rolled_to, c.store), StorageFailure(rolled_to, c.store)}
             ELSE BuildProve(c.store, hs, client_opt, rolled_to, minimal_slot))

\* get_verified_packed_client_and_proof_update: the set of the possible results
GetVerifiedPackedClientAndProofUpdate(st, hs, client_opt) ==
    IF hs = <<>> THEN {RejectEmpty(st)}
    ELSE IF ~SlotsContinuous(hs)
    THEN {RetErr(SendTx("uncontinuous header slot"), NoneOpt, st)}
    ELSE IF IsSome(client_opt) /\ ~OnchainTipContinuous(hs[1].slot, Unwrap(client_opt))
    THEN {RetErr(MissingLastBlockId(Unwrap(client_opt).maximal_slot + 1), NoneOpt, st)}
    ELSE IF ~IsSome(st.tip)
    THEN BuildCommit(st, hs, client_opt, NoneOpt)
    ELSE IF hs[1].slot <= Unwrap(st.tip)
    THEN LET target == Some(RollbackTarget(hs[1].slot))
             st1 == RollbackTo(st, target)
         IN {StorageFailure(NoneOpt, st)}
            \cup (IF hs[1].slot # Unwrap(st1.tip) + 1
                  THEN {RetPanic(target, st1)}
                  ELSE BuildCommit(st1, hs, client_opt, target))
    ELSE IF hs[1].slot # Unwrap(st.tip) + 1
    THEN {RetPanic(NoneOpt, st)}
    ELSE BuildCommit(st, hs, client_opt, NoneOpt)

\* ---- the calls on the store, as the relayer's message-sending path makes them
\* what is recorded of a call
Call(op, hs, client_in, r) ==
    [op |-> op, batch |-> hs, client_in |-> client_in,
     outcome |-> r.outcome, err |-> r.err, prev_tip |-> r.prev_tip,
     client |-> r.client, proof_update |-> r.proof_update, rolled_to |-> r.rolled_to]

NoCall == Call("none", <<>>, NoneOpt, RetOk(EmptyStore))

\* align_native_and_onchain_updates against the client cell found on chain
Align ==
    /\ IsSome(onchain)
    /\ \E hs \in Batches :
       \E r \in AlignNativeAndOnchainUpdates(store, hs, Unwrap(onchain)) :
            /\ store' = r.store
            /\ last' = Call("align", hs, onchain, r)
    /\ UNCHANGED <<onchain, mvars, pvars>>

\* get_verified_packed_client_and_proof_update, with the client cell found on
\* chain or with none (a client is to be created)
BuildProofUpdate ==
    /\ \E hs \in Batches, client_opt \in {NoneOpt, onchain} :
       \E r \in GetVerifiedPackedClientAndProofUpdate(store, hs, client_opt) :
            /\ store' = r.store
            /\ last' = Call("build", hs, client_opt, r)
    /\ UNCHANGED <<onchain, mvars, pvars>>

\* The transaction carrying the returned client and proof update is committed:
\* the client cell on chain becomes the returned client.
SubmitUpdate ==
    /\ last.op = "build"
    /\ last.outcome = "ok"
    /\ last.client_in = onchain
    /\ onchain' = last.client
    /\ last' = NoCall
    /\ UNCHANGED <<store, mvars, pvars>>

\* storage.rollback_to(None): the storage is emptied
EmptyStorage ==
    /\ store # EmptyStore
    /\ store' = RollbackTo(store, NoneOpt)
    /\ last' = NoCall
    /\ UNCHANGED <<onchain, mvars, pvars>>

\* ==========================================================================
\* Inclusion proof builders (axon.rs get_proofs, ckb4ibc/utils.rs)
\* ==========================================================================

\* Error::rpc_response / Error::other_error, with the message less the hashes
RpcResponse(msg) == [kind |-> "rpc_response", msg |-> msg]
OtherError(msg) == [kind |-> "other_error", msg |-> msg]
NoError == [kind |-> "none", msg |-> ""]

\* what a proof builder returned
PErr(e) == [outcome |-> "err", err |-> e, proof |-> NoneOpt]
POk(proof) == [outcome |-> "ok", err |-> NoError, proof |-> Some(proof)]
PPanic == [outcome |-> "panic", err |-> NoError, proof |-> NoneOpt]
NotCalled == [outcome |-> "none", err |-> NoError, proof |-> NoneOpt]

\* a Merkle commitment (trie root, CBMT root) to a sequence of leaves
Commit(leaves) == [commits_to |-> leaves]

\* ---- the Axon chain as its RPC endpoint answers for the requested transaction
\* the transactions of the block that holds the requested one (at index 0)
AxonBlockTxs == <<"tx", "tx2">>

\* the receipt of the i-th transaction of the block
AxonReceipt(i) == [tx_hash |-> AxonBlockTxs[i], transaction_index |-> i - 1,
                   block_number |-> Some(1)]

\* the verifier_list of get_current_metadata, each with vote weight 1
Validators == {1, 2, 3}

\* Receipts::generate_proof(index): the nodes on the path to the receipt
GenerateProof(receipts, index) ==
    [key |-> index, leaf |-> receipts[index + 1],
     nodes |-> [i \in (0..(Len(receipts) - 1)) \ {index} |-> receipts[i + 1]]]

\* axon_tools::verify_trie_proof(root, key, proof)
VerifyTrieProof(root, key, proof) ==
    /\ proof.key = key
    /\ key \notin DOMAIN proof.nodes
    /\ (DOMAIN proof.nodes) \cup {key} = 0..Cardinality(DOMAIN proof.nodes)
    /\ root = Commit([i \in 1..(Cardinality(DOMAIN proof.nodes) + 1) |->
                         IF i - 1 = key THEN proof.leaf ELSE proof.nodes[i - 1]])

\* the hash the validators of Axon sign: the block with the previous state root
AxonBlockHash(block, state_root) == <<block.number, block.receipts_root, state_root>>

\* axon_tools::verify_proof(block, state_root, validators, proof): the proof is
\* of this block and is signed by more than two thirds of the vote weight
VerifyProof(block, state_root, validators, proof) ==
    /\ proof.block_hash = AxonBlockHash(block, state_root)
    /\ 3 * Cardinality(proof.signers \cap validators) > 2 * Cardinality(validators)

\* the AxonBlock of get_block_by_id
AxonBlock(w) ==
    [number |-> 1,
     receipts_root |-> IF w.a_receipts_root = "of_receipts"
                       THEN Commit([i \in 1..Len(AxonBlockTxs) |-> AxonReceipt(i)])
                       ELSE Commit(<<AxonReceipt(2)>>)]

\* the AxonProof of get_proof_by_id(block_number + 1)
AxonProof(w) ==
    [block_hash |-> IF w.a_proof_of = "block" THEN AxonBlockHash(AxonBlock(w), "state0")
                    ELSE AxonBlockHash(AxonBlock(w), "state_other"),
     signers |-> w.a_signers]

AxonWorlds ==
    [a_receipt : {"rpc_err", "none", "pending", "mined"},
     a_block : {"rpc_err", "none", "some"},
     a_siblings : {"rpc_err", "none", "ok"},
     a_ingredients : {"rpc_err", "ok"},
     a_receipts_root : {"of_receipts", "of_others"},
     a_proof_of : {"block", "other_block"},
     a_signers : {{1, 2, 3}, {1}}]

\* AxonChain::get_proofs
GetProofsOf(w) ==
    IF w.a_receipt = "rpc_err" THEN PErr(RpcResponse("rpc"))
    ELSE IF w.a_receipt = "none" THEN PErr(OtherError("can't find transaction receipt"))
    ELSE IF w.a_receipt = "pending" THEN PErr(OtherError("transaction is still pending"))
    ELSE IF w.a_block = "rpc_err" THEN PErr(RpcResponse("rpc"))
    ELSE IF w.a_block = "none" THEN PErr(OtherError("can't find block"))
    ELSE IF w.a_siblings = "none" THEN PErr(OtherError("can't find transaction receipt"))
    ELSE IF w.a_siblings = "rpc_err" THEN PErr(RpcResponse("rpc"))
    ELSE LET receipt == AxonReceipt(1)
             receipts == [i \in 1..Len(AxonBlockTxs) |-> AxonReceipt(i)]
             receipt_proof == GenerateProof(receipts, receipt.transaction_index)
         IN IF w.a_ingredients = "rpc_err" THEN PErr(RpcResponse("rpc"))
            ELSE LET block == AxonBlock(w)
                     block_proof == AxonProof(w)
                 IN \* (the check of the receipts MPT proof is commented out)
                    IF ~VerifyProof(block, "state0", Validators, block_proof)
                    THEN PErr(RpcResponse("unverified axon block"))
                    ELSE POk([receipt |-> receipt, receipt_proof |-> receipt_proof,
                              block |-> block, state_root |-> "state0",
                              block_proof |-> block_proof])

\* ---- the CKB chain as its RPC endpoint answers for the requested transaction
\* the transactions of a block; the requested one is "ctx", at index 0
CkbBlockTxs(content) == IF content = "block" THEN <<"ctx", "ctx2">> ELSE <<"ctx", "ctx3">>

\* Transaction::calc_tx_hash, Transaction::calc_witness_hash
CalcTxHash(tx) == <<"tx_hash", tx>>
CalcWitnessHash(tx) == <<"witness_hash", tx>>

\* merkle_root(&[raw_transactions_root, witnesses_root])
MerkleRoot(leaves) == Commit(leaves)

\* the header of the block: its transactions_root
CkbHeader ==
    [number |-> 1,
     transactions_root |->
        MerkleRoot(<<Commit([i \in 1..2 |-> CalcTxHash(CkbBlockTxs("block")[i])]),
                     Commit([i \in 1..2 |-> CalcWitnessHash(CkbBlockTxs("block")[i])])>>)]

\* a JsonMerkleProof of the leaf at index 0: the other leaves
JsonMerkleProof(leaves, wellformed) ==
    [indices |-> IF wellformed THEN {0} ELSE {},
     lemmas |-> [i \in 1..(Len(leaves) - 1) |-> leaves[i + 1]]]

\* get_transaction_and_witness_proof
TransactionAndWitnessProof(w) ==
    LET content == IF w.c_proof = "stale" THEN "other_block" ELSE "block"
        txs == CkbBlockTxs(content)
    IN [transactions_proof |->
            JsonMerkleProof([i \in 1..Len(txs) |-> CalcTxHash(txs[i])],
                            w.c_proof # "malformed"),
        witnesses_proof |->
            JsonMerkleProof([i \in 1..Len(txs) |-> CalcWitnessHash(txs[i])],
                            w.c_proof # "malformed")]

\* jsonrpc_merkle_root(proof, leaves): MerkleProof::root, None for a proof
\* whose indices do not fit the leaves
JsonrpcMerkleRoot(proof, leaves) ==
    IF Cardinality(proof.indices) # Len(leaves) THEN NoneOpt
    ELSE Some(Commit(leaves \o proof.lemmas))

\* verify_proof(VerifyProofPayload) with verify_type 1 (witness)
VerifyProofPayload(payload) ==
    /\ JsonrpcMerkleRoot(payload.proof, payload.proof_leaves) = Some(payload.witnesses_root)
    /\ MerkleRoot(<<payload.raw_transactions_root, payload.witnesses_root>>)
           = payload.transactions_root

CkbWorlds ==
    [c_tx : {"rpc_err", "none", "pending", "no_body", "committed"},
     c_header : {"rpc_err", "none", "some"},
     c_proof : {"rpc_err", "ok", "stale", "malformed"},
     c_file : {"ok", "fail"}]

\* generate_tx_proof_from_block
GenerateTxProofFromBlockOf(w) ==
    IF w.c_tx = "rpc_err" THEN PErr(RpcResponse("rpc"))
    ELSE IF w.c_tx # "committed" THEN PErr(OtherError("cannot find block_hash from tx"))
    ELSE IF w.c_header = "rpc_err" THEN PErr(RpcResponse("rpc"))
    ELSE IF w.c_header = "none" THEN PPanic
    ELSE IF w.c_proof = "rpc_err" THEN PErr(RpcResponse("rpc"))
    ELSE LET header == CkbHeader
             p == TransactionAndWitnessProof(w)
             transaction_hash == CalcTxHash("ctx")
             witness_hash == CalcWitnessHash("ctx")
             raw_transactions_root == JsonrpcMerkleRoot(p.transactions_proof, <<transaction_hash>>)
             witnesses_root == JsonrpcMerkleRoot(p.witnesses_proof, <<witness_hash>>)
         IN IF ~IsSome(raw_transactions_root) \/ ~IsSome(witnesses_root)
            THEN PErr(OtherError("invalid merkle proof"))
            ELSE IF MerkleRoot(<<Unwrap(raw_transactions_root), Unwrap(witnesses_root)>>)
                        # header.transactions_root
            THEN PErr(OtherError("unexpected transactions_root"))
            ELSE LET proof_payload ==
                         [verify_type |-> 1,
                          transactions_root |-> header.transactions_root,
                          witnesses_root |-> Unwrap(witnesses_root),
                          raw_transactions_root |-> Unwrap(raw_transactions_root),
                          proof |-> p.witnesses_proof,
                          proof_leaves |-> <<witness_hash>>]
                 IN IF ~VerifyProofPayload(proof_payload)
                    THEN PErr(OtherError("proof payload verify failed"))
                    ELSE IF w.c_file = "fail" THEN PPanic
                    ELSE POk([ckb_transaction |-> "ctx", block_hash |-> "block",
                              proof_payload |-> proof_payload])

\* a request for the proofs of the Axon transaction
GetProofs ==
    /\ axon_ret = NotCalled
    /\ axon_ret' = GetProofsOf(world.axon)
    /\ UNCHANGED <<world, ckb_ret, xvars, mvars, svars>>

\* a request for the proof of the CKB transaction
GenerateTxProofFromBlock ==
    /\ ckb_ret = NotCalled
    /\ ckb_ret' = GenerateTxProofFromBlockOf(world.ckb)
    /\ UNCHANGED <<world, axon_ret, xvars, mvars, svars>>

\* the answers when every request succeeds
QuietWorld ==
    [axon |-> [a_receipt |-> "mined", a_block |-> "some", a_siblings |-> "ok",
               a_ingredients |-> "ok", a_receipts_root |-> "of_receipts",
               a_proof_of |-> "block", a_signers |-> {1, 2, 3}],
     ckb |-> [c_tx |-> "committed", c_header |-> "some", c_proof |-> "ok",
              c_file |-> "ok"]]

\* ==========================================================================
\* Sending messages to Axon (axon.rs)
\* ==========================================================================
\* the messages by type_url; "unsupported" is any type_url send_message has no
\* arm for
MsgTypes == {"create_client", "update_client", "conn_open_init", "recv_packet",
            "unsupported"}

\* the message lists a call can be given
MsgLists == UNION {[1..n -> MsgTypes] : n \in 0..MaxMsgs}

\* what the node answers to the transaction of a message: an RPC error, no
\* receipt, or a receipt whose logs hold the event of the message or not and
\* whose block number is assigned or not
Receipts ==
    [answer : {"rpc_err", "none"}, has_event : {FALSE}, block_number : {NoneOpt}]
    \cup [answer : {"receipt"}, has_event : BOOLEAN, block_number : {NoneOpt, Some(1)}]

\* the event send_message takes from the receipt of a message
EventOfMsg(message) ==
    CASE message = "create_client"  -> Ev("CreateClient", [client_id |-> 0])
      [] message = "update_client"  -> Ev("UpdateClient", [client_id |-> 0])
      [] message = "conn_open_init" -> Ev("OpenInitConnection", Conn(0))
      [] message = "recv_packet"    -> Ev("ReceivePacket", Packet(0, 1, 1))

SendTxError(msg) == [kind |-> "send_tx", msg |-> msg]

\* what send_message did for one message
Sent(ok, err, sent, event, cached) ==
    [ok |-> ok, err |-> err, sent |-> sent, event |-> event, cached |-> cached]

\* (mutation of SendMessageOf: the tx hash is cached as soon as the event is
\* found, before the block number of the receipt is looked at)
SendMessageCachingPending(message, receipt, tx_hash) ==
    IF message = "create_client"
    THEN Sent(TRUE, NoError, FALSE,
              <<[event |-> EventOfMsg(message), height |-> 0, tx_hash |-> <<>>]>>, FALSE)
    ELSE IF message = "unsupported"
    THEN Sent(FALSE, SendTxError("not support message type url"), FALSE, <<>>, FALSE)
    ELSE IF receipt.answer = "rpc_err"
    THEN Sent(FALSE, OtherError("rpc"), TRUE, <<>>, FALSE)
    ELSE IF receipt.answer = "none"
    THEN Sent(FALSE, SendTxError("fail to send tx"), TRUE, <<>>, FALSE)
    ELSE IF message # "update_client" /\ ~receipt.has_event
    THEN Sent(FALSE, SendTxError("not find right event from Axon transaction receipt"),
              TRUE, <<>>, FALSE)
    ELSE IF ~IsSome(receipt.block_number)
    THEN Sent(FALSE, SendTxError("transaction is still pending"), TRUE, <<>>, TRUE)
    ELSE Sent(TRUE, NoError, TRUE,
              <<[event |-> EventOfMsg(message), height |-> Unwrap(receipt.block_number),
                 tx_hash |-> tx_hash]>>, TRUE)

\* AxonChain::send_message on one message, given the node's answer and the
\* hash of the transaction
SendMessageOf(message, receipt, tx_hash) ==
    IF message = "create_client"
    THEN Sent(TRUE, NoError, FALSE,
              <<[event |-> EventOfMsg(message), height |-> 0, tx_hash |-> <<>>]>>, FALSE)
    ELSE IF message = "unsupported"
    THEN Sent(FALSE, SendTxError("not support message type url"), FALSE, <<>>, FALSE)
    ELSE IF receipt.answer = "rpc_err"
    THEN Sent(FALSE, OtherError("rpc"), TRUE, <<>>, FALSE)
    ELSE IF receipt.answer = "none"
    THEN Sent(FALSE, SendTxError("fail to send tx"), TRUE, <<>>, FALSE)
    ELSE IF message # "update_client" /\ ~receipt.has_event
    THEN Sent(FALSE, SendTxError("not find right event from Axon transaction receipt"),
              TRUE, <<>>, FALSE)
    ELSE IF ~IsSome(receipt.block_number)
    THEN Sent(FALSE, SendTxError("transaction is still pending"), TRUE, <<>>, FALSE)
    ELSE Sent(TRUE, NoError, TRUE,
              <<[event |-> EventOfMsg(message), height |-> Unwrap(receipt.block_number),
                 tx_hash |-> tx_hash]>>, TRUE)

\* no send_messages_and_wait_commit call made
SendIdle == [status |-> "idle", msgs |-> <<>>, next |-> 1, txs |-> <<>>,
             events |-> <<>>, err |-> NoError]

\* send_messages_and_wait_commit is called with a list of messages
SendMessagesAndWaitCommit ==
    /\ send.status = "idle"
    /\ \E msgs \in MsgLists :
          send' = [SendIdle EXCEPT !.status = "running", !.msgs = msgs]
    /\ UNCHANGED <<ckb_chain, wait, world, axon_ret, ckb_ret, mvars, svars>>

\* (mutation of SendMessage: the iteration goes on after a message failed and
\* the first error is returned at the end)
SendMessageEager ==
    /\ send.status \in {"running", "failing"}
    /\ send.next <= Len(send.msgs)
    /\ \E receipt \in Receipts :
          LET message == send.msgs[send.next]
              tx_hash == <<"sent", Len(send.txs) + 1>>
              r       == SendMessageOf(message, receipt, tx_hash)
              ev      == EventOfMsg(message)
              last_one == send.next = Len(send.msgs)
          IN /\ send' = [send EXCEPT
                   !.status = IF r.ok /\ send.status = "running" THEN "running"
                              ELSE IF last_one THEN "err" ELSE "failing",
                   !.next = send.next + 1,
                   !.txs = IF r.sent
                           THEN Append(send.txs, [msg |-> send.next, tx_hash |-> tx_hash,
                                                  receipt |-> receipt])
                           ELSE send.txs,
                   !.events = send.events \o r.event,
                   !.err = IF send.err = NoError THEN r.err ELSE send.err]
             /\ ibc_cache' = IF r.cached THEN CacheWithEvent(ibc_cache, ev, tx_hash)
                              ELSE ibc_cache
             /\ cache_log' = IF r.cached /\ CacheKey(ev) # NoKey
                              THEN Append(cache_log,
                                          [key |-> CacheKey(ev),
                                           occ |-> [block |-> 1, idx |-> 0, ev |-> ev,
                                                    tx_hash |-> tx_hash]])
                              ELSE cache_log
    /\ UNCHANGED <<chain_tip, chain_logs, pc, start_block_number, init_start,
                   reprocess_events, rx_cmd, tx_alive, subs, published, pending,
                   poll_tip, cur, ret, contract_gen, restores, restore_ret>>
    /\ UNCHANGED <<ckb_chain, wait, world, axon_ret, ckb_ret, svars>>

\* the map over the messages, driven by collect: send_message on the next
\* message; its error ends the call
SendMessage ==
    /\ send.status = "running"
    /\ send.next <= Len(send.msgs)
    /\ \E receipt \in Receipts :
          LET message == send.msgs[send.next]
              tx_hash == <<"sent", Len(send.txs) + 1>>
              r       == SendMessageOf(message, receipt, tx_hash)
              ev      == EventOfMsg(message)
          IN /\ send' = [send EXCEPT
                   !.status = IF r.ok THEN "running" ELSE "err",
                   !.next = IF r.ok THEN send.next + 1 ELSE send.next,
                   !.txs = IF r.sent
                           THEN Append(send.txs, [msg |-> send.next, tx_hash |-> tx_hash,
                                                  receipt |-> receipt])
                           ELSE send.txs,
                   !.events = send.events \o r.event,
                   !.err = r.err]
             /\ ibc_cache' = IF r.cached THEN CacheWithEvent(ibc_cache, ev, tx_hash)
                              ELSE ibc_cache
             /\ cache_log' = IF r.cached /\ CacheKey(ev) # NoKey
                              THEN Append(cache_log,
                                          [key |-> CacheKey(ev),
                                           occ |-> [block |-> 1, idx |-> 0, ev |-> ev,
                                                    tx_hash |-> tx_hash]])
                              ELSE cache_log
    /\ UNCHANGED <<chain_tip, chain_logs, pc, start_block_number, init_start,
                   reprocess_events, rx_cmd, tx_alive, subs, published, pending,
                   poll_tip, cur, ret, contract_gen, restores, restore_ret>>
    /\ UNCHANGED <<ckb_chain, wait, world, axon_ret, ckb_ret, svars>>

\* collect: every message gave an event, the call returns them
Collect ==
    /\ send.status = "running"
    /\ send.next > Len(send.msgs)
    /\ send' = [send EXCEPT !.status = "ok"]
    /\ UNCHANGED <<ckb_chain, wait, world, axon_ret, ckb_ret, mvars, svars>>

\* ==========================================================================
\* Waiting for a CKB transaction (ckb/utils.rs)
\* ==========================================================================
\* the chain before the awaited transaction is in a block
CkbChainIdle == [status |-> "pending", block |-> 0, tip |-> 0]

\* no wait_ckb_transaction_committed call made
WaitIdle == [status |-> "idle", block_number |-> 0, confirms |-> 0,
             saw |-> "nothing", rpc_failed |-> FALSE]

\* The CKB chain appends a block, with the awaited transaction in it or not.
CkbMineBlock ==
    /\ ckb_chain.tip < MaxCkbTip
    /\ \E include \in BOOLEAN :
          ckb_chain' =
              IF include /\ ckb_chain.status \in {"pending", "proposed"}
              THEN [status |-> "committed", block |-> ckb_chain.tip + 1,
                    tip |-> ckb_chain.tip + 1]
              ELSE [ckb_chain EXCEPT !.tip = ckb_chain.tip + 1]
    /\ UNCHANGED <<send, wait, world, axon_ret, ckb_ret, mvars, svars>>

\* The pool moves the awaited transaction on: it is proposed, or rejected.
CkbPoolStep ==
    /\ \/ /\ ckb_chain.status = "pending"
          /\ ckb_chain' = [ckb_chain EXCEPT !.status = "proposed"]
       \/ /\ ckb_chain.status \in {"pending", "proposed"}
          /\ ckb_chain' = [ckb_chain EXCEPT !.status = "rejected"]
    /\ UNCHANGED <<send, wait, world, axon_ret, ckb_ret, mvars, svars>>

\* wait_ckb_transaction_committed is called
WaitCkbTransactionCommitted ==
    /\ wait.status = "idle"
    /\ \E confirms \in 0..MaxConfirms :
          wait' = [WaitIdle EXCEPT !.status = "polling", !.confirms = confirms]
    /\ UNCHANGED <<send, ckb_chain, world, axon_ret, ckb_ret, mvars, svars>>

\* (mutation of Confirmed: the confirmations are not counted)
ConfirmedAtOnce(tip_number, block_number, confirms) == tip_number >= block_number

\* the test that ends the wait
Confirmed(tip_number, block_number, confirms) ==
    tip_number >= block_number + confirms

\* one iteration of the loop of wait_ckb_transaction_committed, after its sleep
WaitPoll ==
    /\ wait.status = "polling"
    /\ \E tx_rpc \in {"ok", "err", "none"}, rpc \in {"ok", "err"} :
          wait' =
              IF tx_rpc = "err"
              THEN [wait EXCEPT !.status = "err", !.saw = "nothing", !.rpc_failed = TRUE]
              ELSE IF tx_rpc = "none"
              THEN [wait EXCEPT !.status = "panic", !.saw = "missing"]
              ELSE IF ckb_chain.status = "rejected"
              THEN [wait EXCEPT !.status = "err", !.saw = "rejected"]
              ELSE IF ckb_chain.status # "committed"
              THEN [wait EXCEPT !.saw = ckb_chain.status]
              ELSE IF wait.block_number = 0
              THEN IF rpc = "err"
                   THEN [wait EXCEPT !.status = "err", !.saw = "committed",
                                     !.rpc_failed = TRUE]
                   ELSE [wait EXCEPT !.saw = "committed",
                                     !.block_number = ckb_chain.block]
              ELSE IF rpc = "err"
              THEN [wait EXCEPT !.status = "err", !.saw = "committed",
                                !.rpc_failed = TRUE]
              ELSE IF Confirmed(ckb_chain.tip, wait.block_number, wait.confirms)
              THEN [wait EXCEPT !.status = "ok", !.saw = "committed"]
              ELSE [wait EXCEPT !.saw = "committed"]
    /\ UNCHANGED <<send, ckb_chain, world, axon_ret, ckb_ret, mvars, svars>>

\* ==========================================================================
\* Specifications
\* ==========================================================================
\* the state before AxonEventMonitor::new
MonitorCreated ==
    /\ chain_tip = 0
    /\ chain_logs = [b \in {0} |-> <<>>]
    /\ pc = "new"
    /\ start_block_number = 0
    /\ init_start = 0
    /\ reprocess_events = <<>>
    /\ rx_cmd = <<>>
    /\ tx_alive = TRUE
    /\ subs = <<>>
    /\ published = <<>>
    /\ ibc_cache = <<>>
    /\ cache_log = <<>>
    /\ pending = <<>>
    /\ poll_tip = 0
    /\ cur = <<>>
    /\ ret = "none"
    /\ contract_gen = 0
    /\ restores = 0
    /\ restore_ret = [ok |-> FALSE, events |-> <<>>, latest_block_count |-> 0]

\* no storage opened, no client cell on chain, no call made
StoreIdle ==
    /\ store = EmptyStore
    /\ onchain = NoneOpt
    /\ last = NoCall

\* no proof requested
ProofIdle ==
    /\ world = QuietWorld
    /\ axon_ret = NotCalled
    /\ ckb_ret = NotCalled
    /\ send = SendIdle
    /\ ckb_chain = CkbChainIdle
    /\ wait = WaitIdle

MonitorInit ==
    /\ MonitorCreated
    /\ StoreIdle
    /\ ProofIdle

MonitorNext ==
    \/ MineBlock
    \/ SendCmd
    \/ DropSender
    \/ New
    \/ RestoreEventTxHashes
    \/ RunStart
    \/ ReprocessEvent
    \/ ProcessBatch
    \/ RunOnce
    \/ ProcessEvent
    \/ FinishPoll
    \/ MatchResult

MonitorSpec == MonitorInit /\ [][MonitorNext]_vars

StoreInit ==
    /\ MonitorCreated
    /\ StoreIdle
    /\ ProofIdle

StoreNext ==
    \/ Align
    \/ BuildProofUpdate
    \/ SubmitUpdate
    \/ EmptyStorage

StoreSpec == StoreInit /\ [][StoreNext]_vars

ProofInit ==
    /\ MonitorCreated
    /\ StoreIdle
    /\ world \in [axon : AxonWorlds, ckb : CkbWorlds]
    /\ axon_ret = NotCalled
    /\ ckb_ret = NotCalled
    /\ send = SendIdle
    /\ ckb_chain = CkbChainIdle
    /\ wait = WaitIdle

ProofNext ==
    \/ GetProofs
    \/ GenerateTxProofFromBlock

ProofSpec == ProofInit /\ [][ProofNext]_vars

\* The monitor thread takes a step (the thread is scheduled by the OS).
\* the correlation cache under events of every kind
CacheInit ==
    /\ MonitorCreated
    /\ StoreIdle
    /\ ProofIdle

CacheNext == ObserveEvent

CacheSpec == CacheInit /\ [][CacheNext]_vars

\* the monitor with senders that keep one more command in flight
CommandNext ==
    \/ MonitorNext
    \/ SendCmdBurst

CommandSpec == MonitorInit /\ [][CommandNext]_vars

MonitorStep ==
    \/ RunStart
    \/ ReprocessEvent
    \/ ProcessBatch
    \/ RunOnce
    \/ ProcessEvent
    \/ FinishPoll
    \/ MatchResult

\* The monitor thread keeps running, and polls are not failing forever
\* (failed polls are bounded by MaxReconnects).
MonitorLive == MonitorSpec /\ WF_vars(MonitorStep)

\* The monitor is created on a chain that already has history: its block 0
\* carries events emitted before the relayer started.
HistoryInit ==
    /\ chain_tip = 0
    /\ chain_logs = [b \in {0} |-> <<Ev("OpenInitConnection", Conn(0)),
                                       Ev("SendPacket", Packet(0, 1, 1))>>]
    /\ pc = "new"
    /\ start_block_number = 0
    /\ init_start = 0
    /\ reprocess_events = <<>>
    /\ rx_cmd = <<>>
    /\ tx_alive = TRUE
    /\ subs = <<>>
    /\ published = <<>>
    /\ ibc_cache = <<>>
    /\ cache_log = <<>>
    /\ pending = <<>>
    /\ poll_tip = 0
    /\ cur = <<>>
    /\ ret = "none"
    /\ contract_gen = 0
    /\ restores = 0
    /\ restore_ret = [ok |-> FALSE, events |-> <<>>, latest_block_count |-> 0]
    /\ StoreIdle
    /\ ProofIdle

HistorySpec == HistoryInit /\ [][MonitorNext]_vars

\* a call of send_messages_and_wait_commit
SendInit ==
    /\ MonitorCreated
    /\ StoreIdle
    /\ ProofIdle

SendNext ==
    \/ SendMessagesAndWaitCommit
    \/ SendMessage
    \/ Collect

SendSpec == SendInit /\ [][SendNext]_vars

\* a call of wait_ckb_transaction_committed while the chain moves on
WaitInit ==
    /\ MonitorCreated
    /\ StoreIdle
    /\ ProofIdle

WaitNext ==
    \/ CkbMineBlock
    \/ CkbPoolStep
    \/ WaitCkbTransactionCommitted
    \/ WaitPoll

WaitSpec == WaitInit /\ [][WaitNext]_vars

\* The task running the wait is polled by the async runtime: its loop is
\* scheduled again after every sleep.
WaitLive == WaitSpec /\ WF_vars(WaitPoll)

\* =================================================================== claims
\* the occurrences published so far / written to the cache so far
PublishedHashes == [i \in 1..Len(published) |-> published[i].events[1].tx_hash]
CachedHashes == [i \in 1..Len(cache_log) |-> cache_log[i].occ.tx_hash]
NoDuplicates(s) == \A i, j \in 1..Len(s) : i # j => s[i] # s[j]
IsPublished(b, i) == \E k \in 1..Len(published) : published[k].events[1].tx_hash = <<b, i>>

\* C1: across every monitor step (reprocessing of restored events, successful
\* and failed polls, processing of each event) start_block_number never decreases.
C1_StartNeverDecreases == [][start_block_number' >= start_block_number]_vars

\* C2: every on-chain event occurrence is processed exactly once: at most one
\* published batch and at most one cache write per occurrence, also after
\* restore_event_tx_hashes followed by run.
C2_ProcessedOnce == NoDuplicates(PublishedHashes) /\ NoDuplicates(CachedHashes)

\* C3 (safety part): every event of a block b that lies at or after the initial
\* start_block_number and that the position has moved past has been published
\* (and cached when eligible).
C3_NoBlockSkipped ==
    pc # "new" =>
        \A b \in init_start..chain_tip :
            b < start_block_number =>
                \A i \in 1..Len(chain_logs[b]) :
                    /\ IsPublished(b, i)
                    /\ CacheKey(chain_logs[b][i]) # NoKey =>
                           \E k \in 1..Len(cache_log) : cache_log[k].occ.tx_hash = <<b, i>>

\* every event of a block below the remote tip (from the initial position on)
\* has been published
CaughtUp ==
    \A b \in init_start..(chain_tip - 1) :
        \A i \in 1..Len(chain_logs[b]) : IsPublished(b, i)

Running == pc \in {"reprocess", "loop", "polling", "match"}

\* C3: no block containing an event is skipped, and while the monitor runs,
\* polls eventually succeed and the tip exceeds b, the events of b are
\* eventually published.
C3_NoSkipAndEventuallyPublished ==
    /\ []C3_NoBlockSkipped
    /\ (Running /\ ~CaughtUp) ~> (CaughtUp \/ pc = "stopped")

C3_Witness ==
    /\ pc = "loop"
    /\ contract_gen > 0
    /\ \E b \in init_start..chain_tip :
        /\ b < start_block_number
        /\ Len(chain_logs[b]) = 2
        /\ IsPublished(b, 1) /\ IsPublished(b, 2)

\* C4: a polling cycle that fails to fetch the tip or the events leaves
\* start_block_number and the cache unchanged and publishes nothing; run()
\* then re-creates the contract binding and loops again (it does not stop),
\* still at the same start_block_number.
C4_FailedPollKeepsPosition ==
    [][/\ (pc = "loop" /\ pc' = "match" /\ ret' = "fail") =>
            /\ start_block_number' = start_block_number
            /\ ibc_cache' = ibc_cache
            /\ cache_log' = cache_log
            /\ published' = published
       /\ (pc = "match" /\ ret = "fail" /\ pc' # "match") =>
            /\ pc' = "loop"
            /\ contract_gen' = contract_gen + 1
            /\ start_block_number' = start_block_number
            /\ ibc_cache' = ibc_cache
            /\ published' = published]_vars

C4_Witness ==
    /\ pc = "loop"
    /\ contract_gen > 0
    /\ published # <<>>
    /\ start_block_number < chain_tip
    /\ QueryRange(start_block_number, chain_tip) # <<>>

\* ---------------------------------------------------------- proof updates
\* the first and the last slot of a batch
FirstSlot(hs) == hs[1].slot
LastSlot(hs) == hs[Len(hs)].slot

\* a call of get_verified_packed_client_and_proof_update has returned
Built == last.op = "build"
BuiltOk == last.op = "build" /\ last.outcome = "ok"

\* C5: build_proof_update returns Ok with a ProofUpdate only if the light
\* client accepted exactly that ProofUpdate (applied to the client that was
\* passed, or creating a client when none was passed) and returns the client
\* the light client produced; a call that does not return Ok returns no
\* ProofUpdate.
C5_OkOnlyIfVerified ==
    Built =>
        /\ last.outcome = "ok" =>
              /\ IsSome(last.proof_update)
              /\ IsSome(last.client)
              /\ Unwrap(last.proof_update).updates = last.batch
              /\ last.client =
                    IF IsSome(last.client_in)
                    THEN TryApplyPackedProofUpdate(Unwrap(last.client_in),
                                                   Unwrap(last.proof_update))
                    ELSE NewFromPackedProofUpdate(Unwrap(last.proof_update))
        /\ last.outcome # "ok" => ~IsSome(last.proof_update) /\ ~IsSome(last.client)

\* a proof update applied to the client found on chain was returned
C5_Witness ==
    /\ BuiltOk
    /\ IsSome(last.client_in)
    /\ IsSome(last.proof_update)
    /\ Unwrap(last.client).maximal_slot > Unwrap(last.client_in).maximal_slot

\* C8: a build_proof_update on a batch whose first slot is at or below the
\* stored tip rolls the storage back to first_slot - 1 before it commits the
\* batch; when it returns Ok the stored tip is the last slot of the batch, the
\* leaves below first_slot are the ones stored before, the leaves from
\* first_slot on are the digests of the batch, and nothing is stored beyond.
C8_RollbackThenCommit ==
    [][(/\ last'.op = "build"
        /\ last'.batch # <<>>
        /\ IsSome(store.tip)
        /\ FirstSlot(last'.batch) <= Unwrap(store.tip)
        /\ last'.outcome = "ok" \/ IsSome(last'.rolled_to))
       => /\ last'.rolled_to = Some(FirstSlot(last'.batch) - 1)
          /\ last'.outcome = "ok" =>
                /\ store'.tip = Some(LastSlot(last'.batch))
                /\ store'.base = store.base
                /\ store'.leaves =
                      SubSeq(store.leaves, 1, FirstSlot(last'.batch) - Unwrap(store.base))
                         \o Digests(last'.batch)
                /\ Len(store'.leaves) = LeafCount(store', LastSlot(last'.batch))]_vars

\* a build returned Ok after rolling the storage back
C8_Witness ==
    /\ BuiltOk
    /\ IsSome(last.rolled_to)
    /\ IsSome(last.client_in)
    /\ store.tip = Some(LastSlot(last.batch))
    /\ Len(store.leaves) > Len(last.batch)

\* the batch of the slots 1..2 and the storage that holds exactly them
Batch12 == <<Header(1), Header(2)>>
Store12 == [base |-> Some(1), tip |-> Some(2), leaves |-> Digests(Batch12)]

\* C9: with the slots scaled (100, 120, 150 -> 1, 2, 3): on an empty storage
\* and a client on chain of the window [1, 3], align on the batch 1..2 commits
\* these headers; a build on the same batch with no client then returns
\* (None, a client of maximal slot 2, a proof update) and leaves the tip at 2.
\* Every build that returns Ok returns Some(maximal slot of the client passed)
\* as the previous tip exactly when a client was passed, and a client whose
\* maximal slot is the last slot of the batch.
C9_AlignThenBuild ==
    [][/\ (/\ last'.op = "align"
            /\ last'.batch = Batch12
            /\ last'.err.kind # "storage"
            /\ store = EmptyStore
            /\ IsSome(onchain)
            /\ Unwrap(onchain).minimal_slot = 1
            /\ Unwrap(onchain).maximal_slot = 3)
           => store' = Store12
       /\ (/\ last'.op = "build"
            /\ last'.batch = Batch12
            /\ ~IsSome(last'.client_in)
            /\ last'.err.kind # "storage"
            /\ store = Store12)
           => /\ last'.outcome = "ok"
              /\ last'.prev_tip = NoneOpt
              /\ Unwrap(last'.client).maximal_slot = 2
              /\ Unwrap(last'.client).minimal_slot = 1
              /\ IsSome(last'.proof_update)
              /\ store'.tip = Some(2)
       /\ (last'.op = "build" /\ last'.outcome = "ok")
           => /\ last'.prev_tip =
                    IF IsSome(last'.client_in)
                    THEN Some(Unwrap(last'.client_in).maximal_slot) ELSE NoneOpt
              /\ Unwrap(last'.client).maximal_slot = LastSlot(last'.batch)]_vars

\* the build of the scenario has returned: the storage held the batch (it was
\* rolled back to slot 0), the client on chain has the window [1, 3]
C9_Witness ==
    /\ BuiltOk
    /\ last.batch = Batch12
    /\ ~IsSome(last.client_in)
    /\ last.prev_tip = NoneOpt
    /\ last.rolled_to = Some(0)
    /\ IsSome(onchain)
    /\ Unwrap(onchain).minimal_slot = 1
    /\ Unwrap(onchain).maximal_slot = 3
    /\ store = Store12

\* C10: a build_proof_update that returns an error leaves the persisted state
\* of the Header Store (base slot, tip slot, leaves) as it was before the call.
C10_ErrorKeepsStore ==
    [][(last'.op = "build" /\ last'.outcome = "err") => store' = store]_vars

\* ------------------------------------------------------- inclusion proofs
\* C6: an inclusion proof is returned only if, on the materials it is made of,
\* the membership check against the root committed in the block passes and
\* (on Axon) the block proof is of this block and signed by more than two
\* thirds of the validators.
C6_ProofOnlyIfSelfVerified ==
    /\ axon_ret.outcome = "ok" =>
          LET p == Unwrap(axon_ret.proof)
          IN /\ VerifyTrieProof(p.block.receipts_root, p.receipt.transaction_index,
                                p.receipt_proof)
             /\ VerifyProof(p.block, p.state_root, Validators, p.block_proof)
    /\ ckb_ret.outcome = "ok" =>
          LET q == Unwrap(ckb_ret.proof).proof_payload
          IN /\ q.transactions_root = CkbHeader.transactions_root
             /\ VerifyProofPayload(q)

\* C7: a request for the proof of a transaction that is not yet in a block
\* returns an error and no proof, and the error differs from the error of
\* every request that fails for another reason.
C7_PendingIsDistinct ==
    /\ (world.axon.a_receipt = "pending" /\ axon_ret # NotCalled) =>
          /\ axon_ret.outcome = "err"
          /\ axon_ret.proof = NoneOpt
          /\ \A w \in AxonWorlds :
                w.a_receipt # "pending" => GetProofsOf(w).err # axon_ret.err
    /\ (world.ckb.c_tx = "pending" /\ ckb_ret # NotCalled) =>
          /\ ckb_ret.outcome = "err"
          /\ ckb_ret.proof = NoneOpt
          /\ \A w \in CkbWorlds :
                w.c_tx # "pending" => GenerateTxProofFromBlockOf(w).err # ckb_ret.err

\* ------------------------------------------- input checks of build and align
\* some slot of the batch is not the first slot plus its index
HasGap(hs) == \E i \in 1..Len(hs) : hs[i].slot # hs[1].slot + (i - 1)

\* the recoverable gap error that names `slot` as the expected one
GapError(slot) ==
    [kind |-> "light_client_verification", detail |-> "missing_last_block_id",
     slot |-> slot]

\* the step is a call that ended with a failure of a storage call
StorageFailed == last'.err.kind = "storage"

\* C11: build_proof_update on a batch whose slots are not contiguous returns
\* an error and has neither rolled back nor committed: the storage is as
\* before the call.
C11_BuildRejectsGaps ==
    [][(last'.op = "build" /\ HasGap(last'.batch))
       => /\ last'.outcome = "err"
          /\ last'.err.kind = "send_tx"
          /\ last'.rolled_to = NoneOpt
          /\ last'.proof_update = NoneOpt
          /\ store' = store]_vars

\* a batch with a gap was rejected while the storage holds headers
C11_Witness ==
    /\ last.op = "build"
    /\ HasGap(last.batch)
    /\ last.outcome = "err"
    /\ IsSome(store.tip)
    /\ FirstSlot(last.batch) <= Unwrap(store.tip)

Aligned == last'.op = "align"
OnchainMin == Unwrap(last'.client_in).minimal_slot
OnchainMax == Unwrap(last'.client_in).maximal_slot

\* the stored base slot exceeds the minimal slot of the client on chain
StaleRemote == IsSome(store.base) /\ Unwrap(store.base) > OnchainMin

\* the storage after the step ends with the digests of the batch, the tip at
\* the last slot of the batch
BatchCommitted ==
    /\ store'.tip = Some(LastSlot(last'.batch))
    /\ Len(store'.leaves) >= Len(last'.batch)
    /\ SubSeq(store'.leaves, Len(store'.leaves) - Len(last'.batch) + 1,
              Len(store'.leaves)) = Digests(last'.batch)

\* C13 as claimed: align on a non-empty storage, no stale remote, with a
\* batch that starts at the stored tip + 1, commits the batch (the tip becomes
\* the batch's last slot), whatever the onchain maximal slot is.
C13_AlignCommitsAlways ==
    [][(/\ Aligned
        /\ last'.batch # <<>>
        /\ IsSome(store.tip)
        /\ ~StaleRemote
        /\ FirstSlot(last'.batch) = Unwrap(store.tip) + 1
        /\ ~StorageFailed)
       => BatchCommitted]_vars

\* C13 amended: such an align commits the batch when the stored tip is below
\* the onchain maximal slot; when the stored tip is at or beyond it, align
\* commits nothing and returns success.
C13_AlignCommitsWhenBehind ==
    [][(/\ Aligned
        /\ last'.batch # <<>>
        /\ IsSome(store.tip)
        /\ ~StaleRemote
        /\ FirstSlot(last'.batch) = Unwrap(store.tip) + 1
        /\ ~StorageFailed)
       => IF Unwrap(store.tip) < OnchainMax
          THEN BatchCommitted /\ store'.base = store.base
          ELSE last'.outcome = "ok" /\ store' = store]_vars

\* align has appended a batch of two headers to a storage that held headers
C13_Witness ==
    /\ last.op = "align"
    /\ last.outcome = "ok"
    /\ Len(last.batch) >= 2
    /\ IsSome(store.base)
    /\ Unwrap(store.base) < FirstSlot(last.batch)
    /\ store.tip = Some(LastSlot(last.batch))

\* C14: align on the empty storage commits the batch, the base slot being the
\* batch's first slot, exactly when the batch starts at the onchain minimal
\* slot; otherwise it returns the gap error naming the onchain minimal slot
\* and the storage stays empty.
C14_AlignOnEmptyStorage ==
    [][(/\ Aligned
        /\ last'.batch # <<>>
        /\ store = EmptyStore
        /\ ~StorageFailed)
       => IF FirstSlot(last'.batch) = OnchainMin
          THEN /\ store'.base = Some(FirstSlot(last'.batch))
               /\ store'.tip = Some(LastSlot(last'.batch))
               /\ store'.leaves = Digests(last'.batch)
          ELSE /\ last'.err = GapError(OnchainMin)
               /\ store' = EmptyStore]_vars

\* align has initialized the storage with a batch of two headers
C14_Witness ==
    /\ last.op = "align"
    /\ Len(last.batch) >= 2
    /\ FirstSlot(last.batch) = Unwrap(last.client_in).minimal_slot
    /\ store.base = Some(FirstSlot(last.batch))
    /\ store.tip = Some(LastSlot(last.batch))
    /\ store.leaves = Digests(last.batch)

\* C15 as claimed: align returns an error for every batch that starts two or
\* more slots beyond the stored tip + 1, and commits no header of it.
C15_AlignRejectsEveryGap ==
    [][(/\ Aligned
        /\ last'.batch # <<>>
        /\ IsSome(store.tip)
        /\ FirstSlot(last'.batch) >= Unwrap(store.tip) + 2)
       => last'.outcome = "err" /\ store' = store]_vars

\* C15 amended: align commits no header of such a batch; it returns an error
\* (the gap error naming the stored tip + 1, or the stale-remote error) when
\* the stored tip is below the onchain maximal slot or the remote is stale,
\* and returns success when the stored tip is at or beyond the onchain
\* maximal slot.
C15_AlignRejectsGapWhenBehind ==
    [][(/\ Aligned
        /\ last'.batch # <<>>
        /\ IsSome(store.tip)
        /\ FirstSlot(last'.batch) >= Unwrap(store.tip) + 2)
       => /\ store' = store
          /\ IF StaleRemote
             THEN last'.outcome = "err" /\ last'.err # GapError(last'.err.slot)
             ELSE IF Unwrap(store.tip) < OnchainMax
             THEN last'.err = GapError(Unwrap(store.tip) + 1)
             ELSE last'.outcome = "ok"]_vars

\* align has rejected a batch that starts two slots beyond the stored tip
C15_Witness ==
    /\ last.op = "align"
    /\ last.batch # <<>>
    /\ IsSome(store.tip)
    /\ FirstSlot(last.batch) >= Unwrap(store.tip) + 2
    /\ last.err = GapError(Unwrap(store.tip) + 1)

\* C16 as claimed: align with the stored base slot above the onchain minimal
\* slot returns the target_lower_than_trusted_state error and leaves the
\* storage as it was, whatever the batch is.
C16_StaleRemoteAlwaysFatal ==
    [][(Aligned /\ StaleRemote)
       => /\ last'.outcome = "err"
          /\ last'.err.detail = "target_lower_than_trusted_state"
          /\ store' = store]_vars

\* C16 amended: align on a non-empty batch with the stored base slot above
\* the onchain minimal slot returns the target_lower_than_trusted_state
\* error, which is no gap error, and leaves the storage as it was; on the
\* empty batch it returns the empty-batch error, the storage unchanged too.
C16_StaleRemoteIsFatal ==
    [][/\ (/\ Aligned
           /\ last'.batch # <<>>
           /\ StaleRemote)
          => (/\ last'.outcome = "err"
              /\ last'.err.detail = "target_lower_than_trusted_state"
              /\ \A k \in 0..(MaxSlot + 1) : last'.err # GapError(k)
              /\ store' = store)
       /\ ((Aligned /\ last'.batch = <<>> /\ StaleRemote)
           => /\ last'.err.kind = "empty_upgraded_client_state"
              /\ store' = store)]_vars

\* align has returned the fatal error on a storage whose base is beyond the
\* onchain minimal slot
C16_Witness ==
    /\ last.op = "align"
    /\ last.batch # <<>>
    /\ last.err.detail = "target_lower_than_trusted_state"
    /\ IsSome(store.base)
    /\ Unwrap(store.base) > Unwrap(last.client_in).minimal_slot

\* C17: align and build_proof_update return an error for the empty batch and
\* leave the storage as it was.
C17_EmptyBatchRejected ==
    [][(last'.op \in {"align", "build"} /\ last'.batch = <<>>)
       => /\ last'.outcome = "err"
          /\ last'.err.kind = "empty_upgraded_client_state"
          /\ last'.rolled_to = NoneOpt
          /\ store' = store]_vars

\* the empty batch was rejected by a call on a storage that holds headers
C17_Witness ==
    /\ last.op \in {"align", "build"}
    /\ last.batch = <<>>
    /\ last.outcome = "err"
    /\ store # EmptyStore

\* C18: align on a batch whose slots are not contiguous returns an error and
\* commits nothing.
C18_AlignRejectsGaps ==
    [][(Aligned /\ HasGap(last'.batch))
       => last'.outcome = "err" /\ store' = store]_vars

\* C19: an align that commits a batch and leaves the stored tip below the
\* onchain maximal slot returns the gap error naming the batch's last slot
\* + 1, the batch staying committed; the align that follows it with the
\* contiguous batch from that slot to the onchain maximal slot succeeds
\* (unless a storage call fails) and brings the tip to the onchain maximal slot.
C19_AlignResumes ==
    [][/\ (Aligned /\ store' # store /\ Unwrap(store'.tip) < OnchainMax)
           => /\ last'.outcome = "err"
              /\ last'.err = GapError(LastSlot(last'.batch) + 1)
              /\ BatchCommitted
       /\ (/\ last.op = "align"
            /\ IsSome(store.tip)
            /\ last.err = GapError(Unwrap(store.tip) + 1)
            /\ Aligned
            /\ last'.batch # <<>>
            /\ ~HasGap(last'.batch)
            /\ FirstSlot(last'.batch) = last.err.slot
            /\ LastSlot(last'.batch) = OnchainMax
            /\ ~StorageFailed)
           => /\ last'.outcome = "ok"
              /\ store'.tip = Some(OnchainMax)]_vars

\* align has committed a batch and reported the slot after it as missing
C19_Witness ==
    /\ last.op = "align"
    /\ last.batch # <<>>
    /\ last.err = GapError(LastSlot(last.batch) + 1)
    /\ store.tip = Some(LastSlot(last.batch))
    /\ Unwrap(store.tip) < Unwrap(last.client_in).maximal_slot

\* C20: align with a non-empty batch that starts at the stored tip + 1, the
\* stored tip being at or beyond the onchain maximal slot and the remote not
\* stale, returns success.
C20_AlignAheadSucceeds ==
    [][(/\ Aligned
        /\ last'.batch # <<>>
        /\ IsSome(store.tip)
        /\ Unwrap(store.tip) >= OnchainMax
        /\ ~StaleRemote
        /\ FirstSlot(last'.batch) = Unwrap(store.tip) + 1)
       => last'.outcome = "ok"]_vars

\* align has returned success for the batch after a tip that is at or beyond
\* the onchain maximal slot
C20_Witness ==
    /\ last.op = "align"
    /\ last.outcome = "ok"
    /\ last.batch # <<>>
    /\ IsSome(store.tip)
    /\ FirstSlot(last.batch) = Unwrap(store.tip) + 1
    /\ Unwrap(store.tip) >= Unwrap(last.client_in).maximal_slot

\* ------------------------------------------------------- the header store
\* the digests of the headers of slots from..to, in slot order
DigestsOfSlots(from, to) == [i \in 1..(to - from + 1) |-> Digest(Header(from + i - 1))]

\* C21: whenever the storage is initialized, tip_slot >= base_slot, the number
\* of committed leaves is tip_slot - base_slot + 1 and the leaf at index
\* s - base_slot is the digest of the header of slot s.
C21_StoreContiguous ==
    IsInitialized(store)
    => /\ IsSome(store.tip)
       /\ Unwrap(store.tip) >= Unwrap(store.base)
       /\ store.leaves = DigestsOfSlots(Unwrap(store.base), Unwrap(store.tip))

\* C22 as claimed: once set, base_slot is never changed and never removed.
C22_BaseNeverChanges ==
    [][IsSome(store.base) => store'.base = store.base]_vars

\* C22 amended: once set, base_slot is kept by every commit and by every
\* rollback to a slot, also when new commits follow the rollback; it is
\* removed only when the storage is emptied as a whole, and the first commit
\* after that sets it to the first slot of the committed batch.
C22_BaseKeptUntilEmptied ==
    [][/\ IsSome(store.base)
          => \/ store'.base = store.base
             \/ store' = EmptyStore /\ last'.op = "none"
       /\ (~IsSome(store.base) /\ IsSome(store'.base))
          => store'.base = Some(FirstSlot(last'.batch))]_vars

\* a build has rolled the storage back and committed a batch that starts
\* beyond the base slot
C22_Witness ==
    /\ last.op = "build"
    /\ last.outcome = "ok"
    /\ IsSome(last.rolled_to)
    /\ IsSome(store.base)
    /\ Unwrap(store.base) < FirstSlot(last.batch)
    /\ Unwrap(store.base) <= Unwrap(last.rolled_to)

\* the leaves stored beyond slot k
LeavesBeyond(st, k) == SubSeq(st.leaves, LeafCount(st, k) + 1, Len(st.leaves))

\* C23: a build that rolls the storage back to slot k and commits again the
\* headers that were stored beyond k leaves the same leaves, hence the same
\* MMR root, and the same tip slot as before.
C23_RollbackReappendSameRoot ==
    [][(/\ last'.op = "build"
        /\ IsSome(last'.rolled_to)
        /\ last'.outcome = "ok"
        /\ IsInitialized(store)
        /\ LeavesBeyond(store, Unwrap(last'.rolled_to)) = Digests(last'.batch))
       => /\ MmrRoot(store'.leaves) = MmrRoot(store.leaves)
          /\ store'.tip = store.tip
          /\ store'.base = store.base]_vars

\* a build has rolled back and committed two headers on top of the base header
C23_Witness ==
    /\ last.op = "build"
    /\ last.outcome = "ok"
    /\ IsSome(last.rolled_to)
    /\ Len(last.batch) >= 2
    /\ store.base = last.rolled_to
    /\ store.tip = Some(LastSlot(last.batch))
    /\ LeavesBeyond(store, Unwrap(last.rolled_to)) = Digests(last.batch)

\* C24: a call that hands the storage a header whose slot is not the slot
\* after the tip (the first header of a batch on an initialized storage, or
\* a header after a hole inside the batch) leaves tip_slot and the committed
\* leaves as they were.
C24_AppendOnlyNextSlot ==
    [][(/\ Aligned
        /\ last'.batch # <<>>
        /\ \/ IsSome(store.tip) /\ FirstSlot(last'.batch) # Unwrap(store.tip) + 1
           \/ HasGap(last'.batch))
       => /\ store'.tip = store.tip
          /\ store'.leaves = store.leaves]_vars

\* C25: whatever the order in which the callers' calls are served one at a
\* time, the storage holds one leaf per slot from base_slot to tip_slot.
C25_SerializedCallsKeepLeafCount ==
    (IsSome(store.base) /\ IsSome(store.tip))
    => Len(store.leaves) = Unwrap(store.tip) - Unwrap(store.base) + 1

\* ------------------------------------------------------ correlation cache
\* the keys the events can be filed under
ObservableKeys == {CacheKey(ev) : ev \in ObservableEvents} \ {NoKey}

RECURSIVE LastWrite(_, _)
\* the tx hash of the last write of the log for a key, if any
LastWrite(log, key) ==
    IF log = <<>> THEN <<>>
    ELSE IF log[Len(log)].key = key THEN <<log[Len(log)].occ.tx_hash>>
    ELSE LastWrite(SubSeq(log, 1, Len(log) - 1), key)

\* C26: a lookup returns the tx hash of the most recent write for the key and
\* nothing only when the key was never written; no step removes an entry.
C26_LookupReturnsLatestWrite ==
    /\ [](\A key \in ObservableKeys \cup DOMAIN ibc_cache :
            LookupTxHash(ibc_cache, key) = LastWrite(cache_log, key))
    /\ [][DOMAIN ibc_cache \subseteq DOMAIN ibc_cache']_vars

\* a key was written twice, with different hashes, and holds the second
C26_Witness ==
    /\ Len(cache_log) = 2
    /\ cache_log[1].key = cache_log[2].key
    /\ cache_log[1].occ.tx_hash # cache_log[2].occ.tx_hash
    /\ LookupTxHash(ibc_cache, cache_log[1].key) = <<cache_log[2].occ.tx_hash>>

\* the key the claim gives for an event, NoKey for an event that is not cached
LifecycleKey(ev) ==
    CASE ev.kind \in {"OpenInitConnection", "OpenTryConnection", "OpenAckConnection",
                      "OpenConfirmConnection"}
            -> <<"Connection", ev.obj.connection_id>>
      [] ev.kind \in {"OpenInitChannel", "OpenTryChannel", "OpenAckChannel",
                      "OpenConfirmChannel"}
            -> <<"Channel", ev.obj.channel_id, ev.obj.port_id>>
      [] ev.kind = "SendPacket"
            -> <<"Packet", ev.obj.source_channel, ev.obj.source_port, ev.obj.sequence>>
      [] ev.kind = "ReceivePacket"
            -> <<"Packet", ev.obj.destination_channel, ev.obj.destination_port,
                 ev.obj.sequence>>
      [] OTHER -> NoKey

\* C27: the event a step observes changes the cache only when it is a
\* connection, channel or packet lifecycle event, and then exactly the entry
\* of its key (connection id; channel and port id; source end of a sent
\* packet, destination end of a received one) becomes its tx hash.
C27_OnlyLifecycleEventsCached ==
    [][cur' # <<>> =>
        LET ev == cur'[1].ev
            key == LifecycleKey(ev)
        IN IF key = NoKey
           THEN ibc_cache' = ibc_cache
           ELSE /\ DOMAIN ibc_cache' = DOMAIN ibc_cache \cup {key}
                /\ \A k \in DOMAIN ibc_cache' :
                      ibc_cache'[k] = IF k = key THEN cur'[1].tx_hash ELSE ibc_cache[k]]_vars

\* a received packet has been filed under its destination end
C27_Witness ==
    /\ cur # <<>>
    /\ cur[1].ev.kind = "ReceivePacket"
    /\ cur[1].ev.obj.source_channel # cur[1].ev.obj.destination_channel
    /\ DOMAIN ibc_cache = {<<"Packet", cur[1].ev.obj.destination_channel,
                             cur[1].ev.obj.destination_port, cur[1].ev.obj.sequence>>}
    /\ Len(cache_log) = 1

\* ------------------------------------------------------------ event bus
\* C28: when a batch is published, the cache already holds the tx hash of its
\* event under the event's key, if the event is one that is cached.
C28_CachedBeforePublished ==
    [][published' # published =>
        LET e == published'[Len(published')].events[1]
        IN CacheKey(e.event) # NoKey
           => LookupTxHash(ibc_cache, CacheKey(e.event)) = <<e.tx_hash>>]_vars

\* a cached event has been published and the cache holds its tx hash
C28_Witness ==
    /\ published # <<>>
    /\ cur = <<>>
    /\ LET e == published[Len(published)].events[1]
       IN /\ e.event.kind = "SendPacket"
          /\ LookupTxHash(ibc_cache, CacheKey(e.event)) = <<e.tx_hash>>

\* what subscriber i has received from the bus
Delivered(i) == SubSeq(published, subs[i] + 1, Len(published))

\* C29: a published batch is appended to what every existing subscriber has
\* received; a new subscriber starts with nothing received and receives
\* every batch published from then on; a subscription made at the top of a
\* polling cycle precedes every batch of that cycle.
C29_SubscribersReceiveAllLaterBatches ==
    [][/\ published' # published
          => /\ subs' = subs
             /\ Len(published') = Len(published) + 1
             /\ \A i \in DOMAIN subs :
                   Delivered(i)' = Append(Delivered(i), published'[Len(published')])
       /\ subs' # subs
          => /\ published' = published
             /\ Len(subs') = Len(subs) + 1
             /\ \A i \in DOMAIN subs : subs'[i] = subs[i]
             /\ subs'[Len(subs')] = Len(published)
             /\ cur' = <<>>
             /\ pc' = "polling"
                => pending' = QueryRange(start_block_number, chain_tip)]_vars

\* a subscriber that came after the first batches has received a later one
C29_Witness ==
    \E i \in DOMAIN subs :
        /\ subs[i] > 0
        /\ Len(Delivered(i)) > 0
        /\ Len(Delivered(1)) > Len(Delivered(i))

\* C30 as claimed: a polling cycle that starts with a Shutdown anywhere in the
\* command channel stops the monitor without polling or publishing.
C30_ShutdownStopsNextCycle ==
    [][(/\ pc = "loop"
        /\ pc' # "loop"
        /\ \E i \in DOMAIN rx_cmd : rx_cmd[i] = "Shutdown")
       => /\ pc' = "match"
          /\ ret' = "abort"
          /\ published' = published
          /\ pending' = pending]_vars

\* C30 amended: a polling cycle takes at most one command off the channel,
\* without waiting for one; when that command is Shutdown the cycle neither
\* polls nor publishes and the monitor stops; when it is Subscribe the cycle
\* goes on and the commands behind it, a Shutdown included, stay queued.
C30_ShutdownAtHeadStopsCycle ==
    [][/\ (pc = "loop" /\ pc' # "loop")
          => /\ rx_cmd' = IF rx_cmd = <<>> THEN rx_cmd ELSE Tail(rx_cmd)
             /\ (rx_cmd # <<>> /\ Head(rx_cmd) = "Shutdown")
                => /\ pc' = "match"
                   /\ ret' = "abort"
                   /\ published' = published
                   /\ pending' = pending
                   /\ start_block_number' = start_block_number
             /\ (rx_cmd # <<>> /\ Head(rx_cmd) = "Subscribe")
                => ret' # "abort"
             /\ (rx_cmd = <<>> /\ tx_alive)
                => ret' # "abort"
       /\ (pc = "match" /\ ret = "abort" /\ pc' # "match")
          => pc' = "stopped" /\ published' = published]_vars

\* a Shutdown was taken off the channel at the top of a cycle, after a cycle
\* that published
C30_Witness ==
    /\ pc = "stopped"
    /\ tx_alive
    /\ subs # <<>>
    /\ published # <<>>
    /\ start_block_number > init_start

\* the states of the monitor's life cycle that follow p
LifeCycleNext(p) ==
    CASE p = "new"       -> {"created"}
      [] p = "created"   -> {"reprocess", "loop", "stopped"}
      [] p = "reprocess" -> {"loop"}
      [] p = "loop"      -> {"polling", "match"}
      [] p = "polling"   -> {"match"}
      [] p = "match"     -> {"loop", "stopped"}
      [] OTHER           -> {}

\* C31: the monitor moves along connecting (created), running (reprocess,
\* loop, polling, match, the contract being created again after a failed
\* cycle) and stopped only; once a Shutdown is in the command channel or the
\* channel is disconnected the monitor eventually stops, given that its own
\* steps are scheduled fairly; and once stopped it stays stopped, changes
\* neither start_block_number nor the cache and publishes nothing.
C31_ShutdownLeadsToStopped ==
    /\ [][pc' # pc => pc' \in LifeCycleNext(pc)]_vars
    /\ [][pc = "stopped"
            => /\ pc' = "stopped"
               /\ start_block_number' = start_block_number
               /\ ibc_cache' = ibc_cache
               /\ cache_log' = cache_log
               /\ published' = published
               /\ subs' = subs]_vars
    /\ (/\ pc # "new"
        /\ \/ ~tx_alive
           \/ \E i \in DOMAIN rx_cmd : rx_cmd[i] = "Shutdown")
       ~> (pc = "stopped")

\* the monitor stopped on a disconnected channel after a failed cycle, a
\* reconnection and a cycle that published
C31_Witness ==
    /\ pc = "stopped"
    /\ ~tx_alive
    /\ contract_gen = MaxReconnects
    /\ published # <<>>
    /\ \A i \in DOMAIN rx_cmd : rx_cmd[i] # "Shutdown"

\* no event of a block below the start_block_number recorded at creation has
\* been cached or published
NothingBelowInitialStart ==
    /\ \A k \in DOMAIN published :
          /\ published[k].height >= init_start
          /\ \A j \in DOMAIN published[k].events :
                published[k].events[j].height >= init_start
    /\ \A k \in DOMAIN cache_log : cache_log[k].occ.block >= init_start

\* the live loop is at or beyond the start_block_number recorded at creation
\* and nothing below it has been cached or published
LiveFromInitialStart ==
    /\ pc \in {"loop", "polling", "match", "stopped"}
    /\ start_block_number >= init_start
    /\ NothingBelowInitialStart

\* C32: creation records the remote tip of that moment as start_block_number;
\* a run that starts without events restored by restore_event_tx_hashes
\* enters its loop at that position with nothing cached or published; and
\* from there on no step moves start_block_number below it or caches or
\* publishes an event of a block below it.
C32_NoHistoryWithoutRestore ==
    /\ [][(pc = "new" /\ pc' # "new")
            => /\ start_block_number' = chain_tip
               /\ init_start' = chain_tip]_vars
    /\ [](pc = "created"
           => /\ start_block_number = init_start
              /\ published = <<>>
              /\ cache_log = <<>>)
    /\ [][(pc = "created" /\ pc' # "created" /\ reprocess_events = <<>>)
            => LiveFromInitialStart']_vars
    /\ [][LiveFromInitialStart => LiveFromInitialStart']_vars

\* a monitor created after a block with events has finished a poll that
\* published the events of a later block and none of the earlier one
C32_Witness ==
    /\ init_start > 0
    /\ \E b \in 0..(init_start - 1) : chain_logs[b] # <<>>
    /\ pc = "match"
    /\ ret = "ok"
    /\ published # <<>>
    /\ NothingBelowInitialStart
    /\ \A k \in DOMAIN published : published[k].height > init_start

\* an event occurrence that the restore has to hand to the reprocess queue
IsSendOrWriteAck(o) == o.ev.kind \in {"SendPacket", "WriteAcknowledgement"}

\* e1 comes before e2 in the log order of the chain
LogBefore(e1, e2) ==
    \/ e1.height < e2.height
    \/ e1.height = e2.height /\ e1.tx_hash[2] < e2.tx_hash[2]

\* C33: a call restore_event_tx_hashes(n) leaves start_block_number alone;
\* it fails when n exceeds start_block_number, and a failed call (that case or
\* a failed query) returns no event and flags none; a successful call returns
\* every event of the blocks start_block_number - n .. start_block_number, of
\* every kind, once and in log order, each with its block number and the hash
\* of its transaction, and appends to the reprocess queue exactly the
\* SendPacket and WriteAcknowledgement events of that range, in that order.
C33_RestoreScansRange ==
    [][restores' = restores + 1
       => LET n     == restore_ret'.latest_block_count
              from  == start_block_number - n
              evs   == restore_ret'.events
          IN /\ start_block_number' = start_block_number
             /\ n > start_block_number => ~restore_ret'.ok
             /\ ~restore_ret'.ok
                => /\ evs = <<>>
                   /\ reprocess_events' = reprocess_events
             /\ restore_ret'.ok
                => /\ n <= start_block_number
                   /\ \A b \in from..start_block_number :
                         \A i \in DOMAIN chain_logs[b] :
                            \E k \in DOMAIN evs :
                               evs[k] = [event |-> chain_logs[b][i], height |-> b,
                                         tx_hash |-> <<b, i>>]
                   /\ \A k \in DOMAIN evs :
                         /\ evs[k].height \in from..start_block_number
                         /\ evs[k].tx_hash[1] = evs[k].height
                         /\ evs[k].tx_hash[2] \in DOMAIN chain_logs[evs[k].height]
                         /\ evs[k].event = chain_logs[evs[k].height][evs[k].tx_hash[2]]
                   /\ \A k, l \in DOMAIN evs : k < l => LogBefore(evs[k], evs[l])
                   /\ reprocess_events' =
                         reprocess_events \o
                         SelectSeq(QueryRange(from, start_block_number), IsSendOrWriteAck)]_vars

\* a restore over more than one block returned events of which some, not all,
\* were flagged
C33_Witness ==
    /\ pc = "created"
    /\ restore_ret.ok
    /\ restore_ret.latest_block_count >= 1
    /\ reprocess_events # <<>>
    /\ Len(restore_ret.events) > Len(reprocess_events)
    /\ \E k, l \in DOMAIN restore_ret.events :
          restore_ret.events[k].height < restore_ret.events[l].height

\* the batch the monitor has to publish for the event occurrence o
BatchOfOne(o) ==
    [height |-> o.block,
     events |-> <<[event |-> o.ev, height |-> o.block, tx_hash |-> o.tx_hash]>>]

\* C34: every published batch holds exactly one event and carries the block
\* number of that event as its height; each publication appends the batch of
\* the event being processed; and during a poll the batches published so far,
\* the event being processed and the events still to be processed are, in this
\* order, the result of the query in on-chain log order.
C34_OneEventBatchesInLogOrder ==
    /\ [](\A k \in DOMAIN published :
            /\ Len(published[k].events) = 1
            /\ published[k].height = published[k].events[1].height)
    /\ [](pc = "polling"
           => \E from \in 0..poll_tip :
                 LET q    == QueryRange(from, poll_tip)
                     done == Len(q) - Len(cur) - Len(pending)
                 IN /\ done >= 0
                    /\ done <= Len(published)
                    /\ SubSeq(q, done + 1, Len(q)) = cur \o pending
                    /\ \A k \in 1..done :
                          published[Len(published) - done + k] = BatchOfOne(q[k]))
    /\ [][published' # published
           => /\ cur # <<>>
              /\ published' = Append(published, BatchOfOne(cur[1]))]_vars

\* a poll has published, one after the other, two events of the same block
C34_Witness ==
    /\ pc = "polling"
    /\ cur = <<>>
    /\ pending = <<>>
    /\ Len(published) >= 2
    /\ published[1].height > init_start
    /\ published[1].height = published[2].height
    /\ LogBefore(published[1].events[1], published[2].events[1])

\* the batches published so far followed by the batches of the event in hand
\* and of the events still in the reprocess queue
ReprocessBatches ==
    published
    \o [i \in 1..Len(cur) |-> BatchOfOne(cur[i])]
    \o [i \in 1..Len(reprocess_events) |-> BatchOfOne(reprocess_events[i])]

\* an event occurrence whose tx hash goes to the cache
IsCacheEligible(o) == LifecycleKey(o.ev) # NoKey

\* the cache writes made so far followed by those the events still in the
\* reprocess queue call for
ReprocessCacheWrites ==
    LET todo == SelectSeq(reprocess_events, IsCacheEligible)
    IN cache_log \o [i \in 1..Len(todo) |->
                       [key |-> LifecycleKey(todo[i].ev), occ |-> todo[i]]]

\* C35: nothing is processed before run() has received its first command; when
\* that command is a Subscribe the flagged events are taken from the head of
\* the reprocess queue one at a time, each written to the cache when eligible
\* and published as a batch of its own, exactly once and in the order flagged,
\* and the queue is empty when the first live poll begins and ever after; when
\* the first command is Shutdown, or the channel is disconnected, the monitor
\* stops and none of the flagged events is processed.
C35_ReprocessAtRunStart ==
    /\ [](pc \in {"new", "created"} => published = <<>> /\ cache_log = <<>> /\ cur = <<>>)
    /\ [](pc \in {"loop", "polling", "match"} => reprocess_events = <<>>)
    /\ [][(pc \in {"created", "reprocess"} /\ pc' \in {"reprocess", "loop"})
           => /\ ReprocessBatches' = ReprocessBatches
              /\ ReprocessCacheWrites' = ReprocessCacheWrites
              /\ cur' # cur /\ cur' # <<>>
                 => /\ cur' = <<Head(reprocess_events)>>
                    /\ reprocess_events' = Tail(reprocess_events)
              /\ pc' = "loop" => reprocess_events' = <<>> /\ cur' = <<>>]_vars
    /\ [][(pc = "created" /\ pc' = "reprocess")
           => rx_cmd # <<>> /\ Head(rx_cmd) = "Subscribe"]_vars
    /\ [][(pc = "created" /\ pc' # "created"
              /\ (rx_cmd = <<>> \/ Head(rx_cmd) = "Shutdown"))
           => pc' = "stopped"]_vars
    /\ [][((pc = "created" /\ pc' = "stopped") \/ pc = "stopped")
           => /\ pc' = "stopped"
              /\ reprocess_events' = reprocess_events
              /\ published' = published
              /\ cache_log' = cache_log
              /\ ibc_cache' = ibc_cache]_vars

\* the run has reprocessed two flagged events, one of them of a block before
\* the one the monitor was created at, and has entered its loop
C35_Witness ==
    /\ pc = "loop"
    /\ reprocess_events = <<>>
    /\ Len(published) >= 2
    /\ published[1].height < init_start
    /\ published[2].height = init_start
    /\ cache_log # <<>>
    /\ contract_gen = 0
    /\ start_block_number = init_start

\* ------------------------------------------------- alignment, precedence
\* the stored tip is behind the maximal slot of the client on chain
TipBehindRemote == IsSome(store.tip) /\ Unwrap(store.tip) < OnchainMax

\* the batch of the call does not start right after the stored tip
BatchOffTip ==
    /\ IsSome(store.tip)
    /\ last'.batch # <<>>
    /\ FirstSlot(last'.batch) # Unwrap(store.tip) + 1

\* C36 as claimed: when the stored base slot exceeds the onchain minimal slot
\* and, in the same call, the stored tip is behind the onchain maximal slot or
\* the batch does not follow the stored tip, align returns the
\* target_lower_than_trusted_state error and not a gap error, and commits
\* nothing.
C36_UnrecoverableFirst ==
    [][(/\ Aligned
        /\ StaleRemote
        /\ (TipBehindRemote \/ BatchOffTip))
       => /\ last'.outcome = "err"
          /\ last'.err = TargetLowerThanTrustedState(OnchainMin)
          /\ store' = store]_vars

\* C36 amended: when, on a non-empty batch, the stored base slot exceeds the
\* onchain minimal slot and the stored tip is behind the onchain maximal slot
\* or the batch does not follow the stored tip, align returns the
\* target_lower_than_trusted_state error naming the onchain minimal slot, not
\* the gap error of any slot, and commits nothing; on the empty batch align
\* returns the empty-batch error, which is neither of the two, and commits
\* nothing.
C36_UnrecoverableFirstOnBatch ==
    [][/\ (/\ Aligned
           /\ last'.batch # <<>>
           /\ StaleRemote
           /\ (TipBehindRemote \/ BatchOffTip))
          => /\ last'.outcome = "err"
             /\ last'.err = TargetLowerThanTrustedState(OnchainMin)
             /\ last'.err.detail # "missing_last_block_id"
             /\ store' = store
       /\ (/\ Aligned
           /\ last'.batch = <<>>
           /\ StaleRemote
           /\ TipBehindRemote)
          => /\ last'.outcome = "err"
             /\ last'.err = EmptyUpgradedClientState
             /\ store' = store]_vars

\* align has returned the fatal error for a batch that would have been
\* committed had the base been checked last: it starts right after a stored
\* tip that is behind the onchain maximal slot
C36_Witness ==
    /\ last.op = "align"
    /\ last.batch # <<>>
    /\ last.err.detail = "target_lower_than_trusted_state"
    /\ IsSome(store.tip)
    /\ Unwrap(store.tip) < Unwrap(last.client_in).maximal_slot
    /\ FirstSlot(last.batch) = Unwrap(store.tip) + 1

\* C37 as claimed: align returns success only when it leaves a non-empty
\* storage whose tip is at or beyond the onchain maximal slot, and whenever
\* it leaves a storage whose tip is below the onchain maximal slot it returns
\* the gap error naming that tip + 1.
C37_AlignOkOnlyCaughtUp ==
    [][Aligned
       => /\ last'.outcome = "ok"
             => /\ IsSome(store'.tip)
                /\ Unwrap(store'.tip) >= OnchainMax
          /\ (IsSome(store'.tip) /\ Unwrap(store'.tip) < OnchainMax)
             => /\ last'.outcome = "err"
                /\ last'.err = GapError(Unwrap(store'.tip) + 1)]_vars

\* C37 amended: align returns success only when it leaves a non-empty storage
\* whose tip is at or beyond the onchain maximal slot; when the batch is not
\* empty, the stored base slot does not exceed the onchain minimal slot, no
\* storage call fails and align leaves a storage whose tip is below the
\* onchain maximal slot, it returns the gap error naming that tip + 1.
C37_AlignOkOnlyCaughtUpElseGap ==
    [][Aligned
       => /\ last'.outcome = "ok"
             => /\ IsSome(store'.tip)
                /\ Unwrap(store'.tip) >= OnchainMax
          /\ (/\ last'.batch # <<>>
              /\ ~StaleRemote
              /\ ~StorageFailed
              /\ IsSome(store'.tip)
              /\ Unwrap(store'.tip) < OnchainMax)
             => /\ last'.outcome = "err"
                /\ last'.err = GapError(Unwrap(store'.tip) + 1)]_vars

\* align has returned success after committing a batch that brought the tip
\* exactly to the onchain maximal slot
C37_Witness ==
    /\ last.op = "align"
    /\ last.outcome = "ok"
    /\ last.batch # <<>>
    /\ Len(store.leaves) > Len(last.batch)
    /\ store.tip = Some(LastSlot(last.batch))
    /\ store.tip = Some(Unwrap(last.client_in).maximal_slot)

\* ---------------------------------------------- proof update, termination
\* C38: get_verified_packed_client_and_proof_update ends every call with a
\* returned value, Ok or Err, never with a failed assertion or a panic; so it
\* is for a batch that starts beyond the stored tip + 1 and for a batch whose
\* rollback target lies below the stored base slot.
C38_BuildAlwaysReturns ==
    last.op = "build" => last.outcome \in {"ok", "err"}

\* ------------------------------------------------------ sending messages
\* the error send_message returns for a message whose transaction got the
\* answer rc
ErrorOfReceipt(message, rc) ==
    IF rc.answer = "rpc_err" THEN [kind |-> "other_error", msg |-> "rpc"]
    ELSE IF rc.answer = "none" THEN [kind |-> "send_tx", msg |-> "fail to send tx"]
    ELSE IF message # "update_client" /\ ~rc.has_event
    THEN [kind |-> "send_tx", msg |-> "not find right event from Axon transaction receipt"]
    ELSE [kind |-> "send_tx", msg |-> "transaction is still pending"]

\* the transaction tx has a receipt with the event of its message and a block
\* number
Receipted(tx) ==
    /\ tx.receipt.answer = "receipt"
    /\ tx.receipt.has_event \/ send.msgs[tx.msg] = "update_client"
    /\ IsSome(tx.receipt.block_number)

\* C39: send_messages_and_wait_commit handles the messages in the given order,
\* one transaction at most per message and one event per message handled; it
\* ends at the first message that fails, returning the error of that message,
\* with no transaction for any later message and nothing done after the
\* return; the transactions and the cache entries of the earlier messages
\* stay; and every cache entry holds the hash of a transaction whose receipt
\* carried the expected event and a block number.
C39_SendStopsAtFirstFailure ==
    /\ [](send.status # "idle"
           => /\ send.next \in 1..(Len(send.msgs) + 1)
              /\ Len(send.events) = send.next - 1
              /\ \A i \in 1..(send.next - 1) :
                    /\ send.events[i].event = EventOfMsg(send.msgs[i])
                    /\ send.msgs[i] # "create_client"
                       => \E k \in DOMAIN send.txs :
                             /\ send.txs[k].msg = i
                             /\ Receipted(send.txs[k])
                             /\ send.events[i].tx_hash = send.txs[k].tx_hash
                             /\ LifecycleKey(EventOfMsg(send.msgs[i])) # NoKey
                                => \E j \in DOMAIN cache_log :
                                      /\ cache_log[j].key = LifecycleKey(EventOfMsg(send.msgs[i]))
                                      /\ cache_log[j].occ.tx_hash = send.txs[k].tx_hash
              /\ \A k, l \in DOMAIN send.txs :
                    k < l => /\ send.txs[k].msg < send.txs[l].msg
                             /\ send.txs[k].tx_hash # send.txs[l].tx_hash
              /\ \A k \in DOMAIN send.txs :
                    /\ send.txs[k].msg <= send.next
                    /\ send.txs[k].msg = send.next => send.status = "err"
                    /\ send.msgs[send.txs[k].msg] \notin {"create_client", "unsupported"})
    /\ [](send.status = "ok" => send.next = Len(send.msgs) + 1 /\ send.err = NoError)
    /\ [](send.status = "err"
           => /\ send.next <= Len(send.msgs)
              /\ IF send.txs # <<>> /\ send.txs[Len(send.txs)].msg = send.next
                 THEN /\ ~Receipted(send.txs[Len(send.txs)])
                      /\ send.err = ErrorOfReceipt(send.msgs[send.next],
                                                    send.txs[Len(send.txs)].receipt)
                 ELSE /\ send.msgs[send.next] = "unsupported"
                      /\ send.err = [kind |-> "send_tx",
                                      msg |-> "not support message type url"])
    /\ [](\A j \in DOMAIN cache_log :
             \E k \in DOMAIN send.txs :
                /\ send.txs[k].tx_hash = cache_log[j].occ.tx_hash
                /\ Receipted(send.txs[k])
                /\ cache_log[j].key = LifecycleKey(EventOfMsg(send.msgs[send.txs[k].msg]))
                /\ LookupTxHash(ibc_cache, cache_log[j].key) # <<>>)
    /\ [][/\ send.status \in {"ok", "err"}
             => /\ send' = send
                /\ ibc_cache' = ibc_cache
                /\ cache_log' = cache_log
          /\ send.status = "running"
             => /\ SubSeq(send'.txs, 1, Len(send.txs)) = send.txs
                /\ Len(send'.txs) <= Len(send.txs) + 1
                /\ SubSeq(cache_log', 1, Len(cache_log)) = cache_log
                /\ DOMAIN ibc_cache \subseteq DOMAIN ibc_cache'
                /\ send'.msgs = send.msgs
                /\ send'.next \in {send.next, send.next + 1}]_vars

\* the second of three messages failed on a pending transaction after the
\* first was sent and cached: two transactions, one cache entry, the third
\* message not sent
C39_Witness ==
    /\ send.status = "err"
    /\ Len(send.msgs) = 3
    /\ send.next = 2
    /\ Len(send.txs) = 2
    /\ send.txs[2].receipt.answer = "receipt"
    /\ send.txs[2].receipt.block_number = NoneOpt
    /\ Len(cache_log) = 1
    /\ send.msgs[3] \notin {"create_client", "unsupported"}

\* ------------------------------------------- waiting for a CKB transaction
\* the wait returns Ok only from a poll that finds the transaction committed
\* in the block an earlier poll recorded and the tip at that block + confirms
\* or beyond
OkOnlyWhenConfirmed ==
    /\ [](wait.block_number # 0
           => /\ ckb_chain.status = "committed"
              /\ ckb_chain.block = wait.block_number)
    /\ [](wait.status = "ok" => wait.saw = "committed" /\ ~wait.rpc_failed)
    /\ [][(wait.status = "polling" /\ wait'.status = "ok")
           => /\ wait.block_number # 0
              /\ wait'.block_number = wait.block_number
              /\ ckb_chain.status = "committed"
              /\ ckb_chain.tip >= wait.block_number + wait.confirms]_vars

\* a poll that observes the status Rejected ends the wait with an error
RejectedIsError ==
    /\ [](wait.saw = "rejected" => wait.status = "err" /\ ckb_chain.status = "rejected")
    /\ [][wait.status \in {"ok", "err", "panic"} => wait' = wait]_vars

\* the wait ends once the transaction is committed and the tip has reached
\* its block + confirms
EndsWhenConfirmed ==
    (/\ wait.status = "polling"
     /\ ckb_chain.status = "committed"
     /\ ckb_chain.tip >= ckb_chain.block + wait.confirms)
    ~> (wait.status # "polling")

\* C40 as claimed: Ok only after Committed in block B was observed and a later
\* poll found the tip at B + confirms or beyond; an error as soon as a poll
\* observes Rejected; otherwise the wait goes on polling, so that it ends in
\* no other way; and it ends if the transaction is committed and the tip
\* reaches B + confirms.
C40_WaitEndsOnlyConfirmedOrRejected ==
    /\ OkOnlyWhenConfirmed
    /\ RejectedIsError
    /\ [](wait.status \notin {"idle", "polling"}
           => \/ wait.status = "ok"
              \/ wait.status = "err" /\ wait.saw = "rejected")
    /\ EndsWhenConfirmed

\* C40 amended: Ok only after Committed in block B was observed and a later
\* poll found the tip at B + confirms or beyond; an error as soon as a poll
\* observes Rejected, and also when an RPC request of a poll fails; a panic
\* when the node has no record of the transaction; otherwise the wait goes on
\* polling; and it ends if the transaction is committed and the tip reaches
\* B + confirms.
C40_WaitEndsConfirmedRejectedOrFailed ==
    /\ OkOnlyWhenConfirmed
    /\ RejectedIsError
    /\ [](wait.status \notin {"idle", "polling"}
           => \/ wait.status = "ok"
              \/ wait.status = "err" /\ wait.saw = "rejected" /\ ~wait.rpc_failed
              \/ wait.status = "err" /\ wait.rpc_failed /\ wait.saw # "rejected"
              \/ wait.status = "panic" /\ wait.saw = "missing")
    /\ [](wait.status = "polling"
           => /\ ~wait.rpc_failed
              /\ wait.saw \in {"nothing", "pending", "proposed", "committed"})
    /\ EndsWhenConfirmed

\* the wait returned Ok for a transaction of block 1 with two confirmations,
\* the tip at block 3
C40_Witness ==
    /\ wait.status = "ok"
    /\ wait.confirms = MaxConfirms
    /\ wait.block_number = 1
    /\ ckb_chain.tip = wait.block_number + wait.confirms

====
